---- MODULE Spec2Model ----
(***************************************************************************)
(* Model of the ingredient resolution / quantity normalisation / nutrition *)
(* aggregation pipeline: IngredientMapper, QuantityStandardizer,           *)
(* NutritionCalculator and ErrorHandler.                                   *)
(*                                                                         *)
(* JavaScript strings are TLA+ strings, read character by character with   *)
(* SubSeq.  JavaScript numbers are exact rationals extended with NaN and   *)
(* the two infinities (records [k, n, d]); binary rounding of doubles is   *)
(* not represented.  A nullable value is a sequence of length 0 (null) or  *)
(* 1 (the value).                                                          *)
(***************************************************************************)
EXTENDS Integers, Sequences, FiniteSets, TLC

VARIABLES
  nutritionDB,            \* IngredientMapper.nutritionDB: rows of the CSV
  dbIngredientNames,      \* IngredientMapper.dbIngredientNames
  ingredientSynonyms,     \* IngredientMapper.ingredientSynonyms
  aiModel,                \* IngredientMapper.aiModel is set (TRUE) or null
  householdMeasurements,  \* data/householdMeasurements.json as loaded
  ingredients,            \* argument of calculateNutrition
  pc,                     \* per ingredient: position of its map callback
  standardName,           \* per ingredient: result of standardizeIngredientName
  microQ,                 \* callbacks whose awaited promise is settled, FIFO
  processedIngredients,   \* calculateNutrition: local list, push order
  totalNutrition,         \* calculateNutrition: local totals
  totalWeightInGrams,     \* calculateNutrition: local total weight
  status,                 \* "idle" | "running" | "returned" | "rejected" | "served"
  dishType,               \* argument of calculatePerServing
  perServing,             \* result of calculatePerServing, nullable
  qPhrase,                \* standardizeToGrams: argument quantity
  qName,                  \* standardizeToGrams: argument mappedIngredientName
  qParsed,                \* standardizeToGrams: local parsedQuantity, nullable
  qGrams,                 \* standardizeToGrams: return value, nullable
  rName,                  \* standardizeIngredientName: argument
  rPc,                    \* standardizeIngredientName: "idle" | "ai" | "done"
  rReply,                 \* getAiAssistedMatch: text of the reply, nullable
  rResult,                \* standardizeIngredientName: return value, nullable
  previous,               \* what an earlier call of calculateNutrition was given
                          \* and returned, nullable
  eDish,                  \* estimateNutrition: argument dishName, nullable
  ePc,                    \* estimateNutrition: "idle" | "validating" | "fetching" |
                          \*   "calculating" | "done"
  eRecipe,                \* estimateNutrition: local recipe, nullable
  eResult                 \* estimateNutrition: return value, nullable

vars == <<nutritionDB, dbIngredientNames, ingredientSynonyms, aiModel,
          householdMeasurements, ingredients, pc, standardName, microQ,
          processedIngredients, totalNutrition, totalWeightInGrams, status,
          dishType, perServing, qPhrase, qName, qParsed, qGrams,
          rName, rPc, rReply, rResult, previous,
          eDish, ePc, eRecipe, eResult>>

(***************************************************************************)
(* Numbers                                                                 *)
(***************************************************************************)
Abs(x) == IF x < 0 THEN -x ELSE x

RECURSIVE Gcd(_, _)
Gcd(a, b) == IF b = 0 THEN a ELSE Gcd(b, a % b)

RECURSIVE Pow10(_)
Pow10(e) == IF e = 0 THEN 1 ELSE 10 * Pow10(e - 1)

NaN == [k |-> "nan", n |-> 0, d |-> 1]
PosInf == [k |-> "inf", n |-> 1, d |-> 1]
NegInf == [k |-> "inf", n |-> -1, d |-> 1]

\* the finite number n/d (d # 0), in lowest terms with d > 0
Fin(n, d) ==
  LET g == Gcd(Abs(n), Abs(d))
      s == IF d < 0 THEN -1 ELSE 1
  IN [k |-> "fin", n |-> (s * n) \div g, d |-> Abs(d) \div g]

Num(n) == Fin(n, 1)
Zero == Num(0)

IsNaN(x) == x.k = "nan"
IsFinite(x) == x.k = "fin"
Sign(x) == IF x.k = "nan" THEN 0 ELSE IF x.n > 0 THEN 1 ELSE IF x.n < 0 THEN -1 ELSE 0

\* ToBoolean of a number: false for 0 and NaN
NumTruthy(x) == ~(IsNaN(x) \/ (IsFinite(x) /\ x.n = 0))

\* x + y
JsAdd(x, y) ==
  IF IsNaN(x) \/ IsNaN(y) THEN NaN
  ELSE IF x.k = "inf" /\ y.k = "inf" THEN (IF x.n = y.n THEN x ELSE NaN)
  ELSE IF x.k = "inf" THEN x
  ELSE IF y.k = "inf" THEN y
  ELSE Fin(x.n * y.d + y.n * x.d, x.d * y.d)

\* x * y
JsMul(x, y) ==
  IF IsNaN(x) \/ IsNaN(y) THEN NaN
  ELSE IF x.k = "inf" \/ y.k = "inf"
    THEN (IF Sign(x) * Sign(y) = 0 THEN NaN
          ELSE IF Sign(x) * Sign(y) > 0 THEN PosInf ELSE NegInf)
  ELSE Fin(x.n * y.n, x.d * y.d)

\* x / y  (a zero divisor is +0: every divisor in the code is a parsed
\* digit string or a positive literal)
JsDiv(x, y) ==
  IF IsNaN(x) \/ IsNaN(y) THEN NaN
  ELSE IF x.k = "inf" /\ y.k = "inf" THEN NaN
  ELSE IF x.k = "inf" THEN (IF Sign(y) < 0 THEN (IF x.n > 0 THEN NegInf ELSE PosInf) ELSE x)
  ELSE IF y.k = "inf" THEN Zero
  ELSE IF y.n = 0
    THEN (IF x.n = 0 THEN NaN ELSE IF x.n > 0 THEN PosInf ELSE NegInf)
  ELSE Fin(x.n * y.d, x.d * y.n)

\* x < y and x > y (false when either side is NaN)
JsLt(x, y) ==
  IF IsNaN(x) \/ IsNaN(y) THEN FALSE
  ELSE IF x.k = "inf" THEN x.n < 0 /\ ~(y.k = "inf" /\ y.n < 0)
  ELSE IF y.k = "inf" THEN y.n > 0
  ELSE x.n * y.d < y.n * x.d

JsGt(x, y) == JsLt(y, x)

\* Math.round: nearest integer, halves towards +Infinity
MathRound(x) ==
  IF ~IsFinite(x) THEN x
  ELSE Num((2 * x.n + x.d) \div (2 * x.d))

\* x || 0 on numbers
OrZero(x) == IF NumTruthy(x) THEN x ELSE Zero

(***************************************************************************)
(* Characters and strings                                                  *)
(***************************************************************************)
Digits == {"0", "1", "2", "3", "4", "5", "6", "7", "8", "9"}
LowerStr == "abcdefghijklmnopqrstuvwxyz"
UpperStr == "ABCDEFGHIJKLMNOPQRSTUVWXYZ"

CharAt(s, i) == IF i >= 1 /\ i <= Len(s) THEN SubSeq(s, i, i) ELSE ""

LowerLetters == {SubSeq(LowerStr, i, i) : i \in 1..26}
UpperLetters == {SubSeq(UpperStr, i, i) : i \in 1..26}

IsDigit(c) == c \in Digits
IsAlpha(c) == c \in LowerLetters \/ c \in UpperLetters
\* \w
IsWord(c) == IsAlpha(c) \/ IsDigit(c) \/ c = "_"
\* \s (the inputs use the blank only)
IsSpace(c) == c = " "

DigitVal(c) == CHOOSE v \in 0..9 : SubSeq("0123456789", v + 1, v + 1) = c

ToLowerChar(c) ==
  IF c \in UpperLetters
    THEN LET i == CHOOSE j \in 1..26 : SubSeq(UpperStr, j, j) = c
         IN SubSeq(LowerStr, i, i)
    ELSE c

\* LET x == value IN F(x), with value computed before F(x) is
With(value, F(_)) == CHOOSE r \in {F(x) : x \in {value}} : TRUE

Min(S) == CHOOSE x \in S : \A y \in S : x <= y

\* the concatenation of the strings parts[lo..hi]
RECURSIVE JoinRange(_, _, _)
JoinRange(parts, lo, hi) ==
  IF lo > hi THEN ""
  ELSE IF lo = hi THEN parts[lo]
  ELSE JoinRange(parts, lo, (lo + hi) \div 2) \o JoinRange(parts, (lo + hi) \div 2 + 1, hi)

Join(parts) == JoinRange(parts, 1, Len(parts))

\* String.prototype.toLowerCase
ToLowerCase(s) == Join([i \in 1..Len(s) |-> ToLowerChar(CharAt(s, i))])

\* String.prototype.trim
TrimLeft(s) ==
  With({i \in 1..Len(s) : ~IsSpace(CharAt(s, i))}, LAMBDA solid :
    IF solid = {} THEN "" ELSE SubSeq(s, Min(solid), Len(s)))

TrimRight(s) ==
  With({i \in 1..Len(s) : ~IsSpace(CharAt(s, i))}, LAMBDA solid :
    IF solid = {} THEN "" ELSE SubSeq(s, 1, -Min({-i : i \in solid})))

Trim(s) == With(TrimLeft(s), LAMBDA left : TrimRight(left))

\* s starts with t at position i
StartsAt(s, t, i) == i >= 1 /\ i + Len(t) - 1 <= Len(s) /\ SubSeq(s, i, i + Len(t) - 1) = t

\* String.prototype.includes
Includes(s, t) == \E i \in 1..(Len(s) + 1) : StartsAt(s, t, i)

\* String.prototype.indexOf, from 1; 0 when absent
IndexOf(s, t) ==
  With({i \in 1..(Len(s) + 1) : StartsAt(s, t, i)}, LAMBDA hits :
    IF hits = {} THEN 0 ELSE Min(hits))

\* end of the longest run of characters of class C starting at i (i-1 if none)
RunEnd(s, i, C) ==
  IF i < 1 \/ i > Len(s) THEN i - 1
  ELSE With({j \in i..Len(s) : CharAt(s, j) \notin C}, LAMBDA stops :
         IF stops = {} THEN Len(s) ELSE Min(stops) - 1)

DigitsEnd(s, i) == RunEnd(s, i, Digits)
SpacesEnd(s, i) == RunEnd(s, i, {" "})
LettersEnd(s, i) == RunEnd(s, i, LowerLetters \cup UpperLetters)

\* value of a digit string (parseInt of it)
RECURSIVE DigitsVal(_)
DigitsVal(s) ==
  IF s = "" THEN 0 ELSE 10 * DigitsVal(SubSeq(s, 1, Len(s) - 1)) + DigitVal(CharAt(s, Len(s)))

\* value of the digits s[b..e], 0 when there are none
DigitsValIn(s, b, e) == IF e >= b THEN DigitsVal(SubSeq(s, b, e)) ELSE 0

(***************************************************************************)
(* parseFloat and the regular expressions of parseQuantity                 *)
(***************************************************************************)
\* parseFloat(s): the longest prefix of the left-trimmed string that is a
\* decimal literal (sign, digits, fraction, exponent) or Infinity; else NaN.
\*   p        first character after the sign
\*   intEnd   end of the integer digits, fracEnd end of ".digits"
\*   eStart   first exponent digit, eEnd end of the exponent (eStart-1: none)
ParseFloat(s) ==
  With(TrimLeft(s), LAMBDA t :
  With(IF CharAt(t, 1) \in {"+", "-"} THEN 2 ELSE 1, LAMBDA p :
  With(DigitsEnd(t, p), LAMBDA intEnd :
  With(IF CharAt(t, intEnd + 1) = "." THEN DigitsEnd(t, intEnd + 2) ELSE intEnd, LAMBDA fracEnd :
  With(IF CharAt(t, fracEnd + 2) \in {"+", "-"} THEN fracEnd + 3 ELSE fracEnd + 2, LAMBDA eStart :
  With(IF CharAt(t, fracEnd + 1) \in {"e", "E"} THEN DigitsEnd(t, eStart) ELSE eStart - 1, LAMBDA eEnd :
  With(IF fracEnd >= intEnd + 2 THEN fracEnd - intEnd - 1 ELSE 0, LAMBDA fracLen :
  With((IF CharAt(t, 1) = "-" THEN -1 ELSE 1)
         * (DigitsValIn(t, p, intEnd) * Pow10(fracLen)
              + DigitsValIn(t, intEnd + 2, intEnd + 1 + fracLen)), LAMBDA num :
  With(DigitsValIn(t, eStart, eEnd), LAMBDA eVal :
    IF StartsAt(t, "Infinity", p) THEN (IF CharAt(t, 1) = "-" THEN NegInf ELSE PosInf)
    ELSE IF intEnd < p /\ fracLen = 0 THEN NaN
    ELSE IF eEnd >= eStart /\ CharAt(t, fracEnd + 2) = "-"
      THEN Fin(num, Pow10(fracLen) * Pow10(eVal))
    ELSE Fin(num * Pow10(eVal), Pow10(fracLen)))))))))))

\* end of \d+(\.\d+)? matched greedily at i; i-1 when s[i] is no digit
NumberEnd(s, i) ==
  With(DigitsEnd(s, i), LAMBDA e :
  With(DigitsEnd(s, e + 2), LAMBDA f :
    IF e < i THEN i - 1
    ELSE IF CharAt(s, e + 1) = "." /\ f >= e + 2 THEN f
    ELSE e))

\* The ends at which (\d+(\.\d+)?) can stop when matched at i, in the
\* order the backtracking matcher tries them: with the fraction, then
\* without it.  Shorter digit runs are followed by a digit, which none of
\* the continuations below accepts.
NumberEnds(s, i) ==
  With(DigitsEnd(s, i), LAMBDA e :
  With(NumberEnd(s, i), LAMBDA f :
    IF e < i THEN <<>>
    ELSE IF f > e THEN <<f, e>> ELSE <<e>>))

\* continuations after the number: \s*g, \s*(pound|lb)s?, \s*ml, \s+[a-zA-Z]+
ContGram(s, p) == CharAt(s, SpacesEnd(s, p) + 1) = "g"
ContPound(s, p) ==
  StartsAt(s, "pound", SpacesEnd(s, p) + 1) \/ StartsAt(s, "lb", SpacesEnd(s, p) + 1)
ContMl(s, p) == StartsAt(s, "ml", SpacesEnd(s, p) + 1)
ContUnit(s, p) == SpacesEnd(s, p) >= p /\ LettersEnd(s, SpacesEnd(s, p) + 1) > SpacesEnd(s, p)
ContAny(s, p) == TRUE

\* end of the first capture group when /(\d+(\.\d+)?)<continuation>/
\* matches at i, 0 when it does not
NumberEndAt(s, i, Cont(_, _)) ==
  With(NumberEnds(s, i), LAMBDA ends :
  With({k \in 1..Len(ends) : Cont(s, ends[k] + 1)}, LAMBDA ok :
    IF ok = {} THEN 0 ELSE ends[Min(ok)]))

\* String.prototype.match of /(\d+(\.\d+)?)<continuation>/: <<i, e>> with
\* s[i..e] the first capture group of the leftmost match, <<0, 0>> if none
MatchNumber(s, Cont(_, _)) ==
  With({i \in 1..Len(s) : NumberEndAt(s, i, Cont) # 0}, LAMBDA hits :
    IF hits = {} THEN <<0, 0>> ELSE <<Min(hits), NumberEndAt(s, Min(hits), Cont)>>)

\* leftmost run of letters, /[a-zA-Z]+/: <<i, e>> or <<0, 0>>
MatchLetters(s) ==
  With({i \in 1..Len(s) : IsAlpha(CharAt(s, i))}, LAMBDA hits :
    IF hits = {} THEN <<0, 0>> ELSE <<Min(hits), LettersEnd(s, Min(hits))>>)

\* /(\d+)\s*\/\s*(\d+)/ matched at i: <<e1, b2, e2>> (end of numerator,
\* begin and end of denominator) or <<0, 0, 0>>
FractionAt(s, i) ==
  With(DigitsEnd(s, i), LAMBDA e1 :
  With(SpacesEnd(s, e1 + 1) + 1, LAMBDA slash :
  With(SpacesEnd(s, slash + 1) + 1, LAMBDA b2 :
  With(DigitsEnd(s, b2), LAMBDA e2 :
    IF e1 >= i /\ CharAt(s, slash) = "/" /\ e2 >= b2 THEN <<e1, b2, e2>> ELSE <<0, 0, 0>>))))

\* /\/\s*\d+\s+([a-zA-Z]+)/ matched with the slash at p: <<b, e>> of the
\* captured unit or <<0, 0>>
FractionUnitAt(s, p) ==
  With(SpacesEnd(s, p + 1) + 1, LAMBDA b1 :
  With(DigitsEnd(s, b1), LAMBDA e1 :
  With(SpacesEnd(s, e1 + 1) + 1, LAMBDA b :
  With(LettersEnd(s, b), LAMBDA e :
    IF CharAt(s, p) = "/" /\ e1 >= b1 /\ b > e1 + 1 /\ e >= b THEN <<b, e>> ELSE <<0, 0>>))))

PoundInGrams == Fin(453592, 1000)

(***************************************************************************)
(* QuantityStandardizer                                                    *)
(***************************************************************************)
\* an unparseable phrase counted as one unit
UnparsedAsOne == [value |-> Num(1), unit |-> <<>>]

Unparsed == [value |-> Zero, unit |-> <<>>]

\* a || b on nullable values
OrElse(a, b) == IF a # <<>> /\ a # <<"">> THEN a ELSE b

\* the grams rule reading its number with parseInt, as the fraction rule
\* does: the digits before the point only
GramsRuleParseInt(s) ==
  IF Includes(s, "g") /\ ~Includes(s, "glass")
    THEN With(MatchNumber(s, ContGram), LAMBDA match :
           IF match[1] = 0 THEN <<>>
           ELSE <<[value |-> ParseFloat(SubSeq(s, match[1], DigitsEnd(s, match[1]))),
                   unit |-> <<"g">>]>>)
    ELSE <<>>

\* lines 21-26: <<result>> when the rule returns, <<>> when it falls through
GramsRule(s) ==
  IF Includes(s, "g") /\ ~Includes(s, "glass")
    THEN With(MatchNumber(s, ContGram), LAMBDA match :
           IF match[1] = 0 THEN <<>>
           ELSE <<[value |-> ParseFloat(SubSeq(s, match[1], match[2])), unit |-> <<"g">>]>>)
    ELSE <<>>

\* lines 29-34
PoundsRule(s) ==
  IF Includes(s, "pound") \/ Includes(s, "lb")
    THEN With(MatchNumber(s, ContPound), LAMBDA match :
           IF match[1] = 0 THEN <<>>
           ELSE <<[value |-> JsMul(ParseFloat(SubSeq(s, match[1], match[2])), PoundInGrams),
                   unit |-> <<"g">>]>>)
    ELSE <<>>

\* lines 37-42
MlRule(s) ==
  IF Includes(s, "ml")
    THEN With(MatchNumber(s, ContMl), LAMBDA match :
           IF match[1] = 0 THEN <<>>
           ELSE <<[value |-> ParseFloat(SubSeq(s, match[1], match[2])), unit |-> <<"ml">>]>>)
    ELSE <<>>

\* the range rule returning the second end instead of the mean
RangeRuleSecondEnd(s) ==
  IF ~Includes(s, "-") THEN <<>>
  ELSE
  With(IndexOf(s, "-"), LAMBDA dash :
  With(SubSeq(s, dash + 1, Len(s)), LAMBDA rest :
  With(IF Includes(rest, "-") THEN SubSeq(rest, 1, IndexOf(rest, "-") - 1) ELSE rest, LAMBDA part1 :
  With(MatchNumber(part1, ContAny), LAMBDA val2Match :
    IF val2Match[1] = 0 THEN <<>>
    ELSE
    With(MatchLetters(part1), LAMBDA unitMatch :
      <<[value |-> ParseFloat(SubSeq(part1, val2Match[1], val2Match[2])),
         unit |-> IF unitMatch[1] = 0 THEN <<>>
                  ELSE <<ToLowerCase(Trim(SubSeq(part1, unitMatch[1], unitMatch[2])))>>]>>)))))

\* lines 45-56: parts = s.split('-'); part1 is parts[1]
RangeRule(s) ==
  IF ~Includes(s, "-") THEN <<>>
  ELSE
  With(IndexOf(s, "-"), LAMBDA dash :
  With(SubSeq(s, dash + 1, Len(s)), LAMBDA rest :
  With(IF Includes(rest, "-") THEN SubSeq(rest, 1, IndexOf(rest, "-") - 1) ELSE rest, LAMBDA part1 :
  With(MatchNumber(part1, ContAny), LAMBDA val2Match :
    IF val2Match[1] = 0 THEN <<>>
    ELSE
    With(ParseFloat(Trim(SubSeq(s, 1, dash - 1))), LAMBDA val1 :
    With(ParseFloat(SubSeq(part1, val2Match[1], val2Match[2])), LAMBDA val2 :
    With(MatchLetters(part1), LAMBDA unitMatch :
      <<[value |-> JsDiv(JsAdd(val1, val2), Num(2)),
         unit |-> IF unitMatch[1] = 0 THEN <<>>
                  ELSE <<ToLowerCase(Trim(SubSeq(part1, unitMatch[1], unitMatch[2])))>>]>>)))))))

\* the unit of the fraction rule, lines 67-68
FractionUnit(s) ==
  With({p \in 1..Len(s) : FractionUnitAt(s, p)[1] # 0}, LAMBDA hits :
    IF hits = {} THEN <<>>
    ELSE With(FractionUnitAt(s, Min(hits)), LAMBDA unitMatch :
           <<ToLowerCase(Trim(SubSeq(s, unitMatch[1], unitMatch[2])))>>))

\* the fraction rule dividing the denominator by the numerator
FractionRuleInverted(s) ==
  IF ~Includes(s, "/") THEN <<>>
  ELSE
  With({i \in 1..Len(s) : FractionAt(s, i)[1] # 0}, LAMBDA hits :
    IF hits = {} THEN <<>>
    ELSE
    With(FractionAt(s, Min(hits)), LAMBDA fractionMatch :
    With(DigitsVal(SubSeq(s, Min(hits), fractionMatch[1])), LAMBDA numerator :
    With(DigitsVal(SubSeq(s, fractionMatch[2], fractionMatch[3])), LAMBDA denominator :
      <<[value |-> JsDiv(Num(denominator), Num(numerator)), unit |-> FractionUnit(s)]>>))))

\* lines 59-72
FractionRule(s) ==
  IF ~Includes(s, "/") THEN <<>>
  ELSE
  With({i \in 1..Len(s) : FractionAt(s, i)[1] # 0}, LAMBDA hits :
    IF hits = {} THEN <<>>
    ELSE
    With(FractionAt(s, Min(hits)), LAMBDA fractionMatch :
    With(DigitsVal(SubSeq(s, Min(hits), fractionMatch[1])), LAMBDA numerator :
    With(DigitsVal(SubSeq(s, fractionMatch[2], fractionMatch[3])), LAMBDA denominator :
      <<[value |-> JsDiv(Num(numerator), Num(denominator)), unit |-> FractionUnit(s)]>>))))

\* lines 75-81
GeneralRule(s) ==
  With(MatchNumber(s, ContUnit), LAMBDA generalMatch :
    IF generalMatch[1] = 0 THEN <<>>
    ELSE With(SpacesEnd(s, generalMatch[2] + 1) + 1, LAMBDA b :
           <<[value |-> ParseFloat(SubSeq(s, generalMatch[1], generalMatch[2])),
              unit |-> <<ToLowerCase(Trim(SubSeq(s, b, LettersEnd(s, b))))>>]>>))

\* the qualitative rule without toLowerCase()
QualitativeRuleCaseSensitive(s) ==
  IF Includes(s, "to taste") \/ Includes(s, "as needed") \/ Includes(s, "as required")
    THEN <<[value |-> Fin(1, 2), unit |-> <<"teaspoon">>]>>
    ELSE <<>>

\* lines 84-89
QualitativeRule(s) ==
  With(ToLowerCase(s), LAMBDA low :
    IF Includes(low, "to taste") \/ Includes(low, "as needed") \/ Includes(low, "as required")
      THEN <<[value |-> Fin(1, 2), unit |-> <<"teaspoon">>]>>
      ELSE <<>>)

\* the first rule that returns
FirstOf(rule, others) == IF rule # <<>> THEN rule ELSE others

\* parseQuantity(quantityStr): quantityStr is nullable (<<>> stands for
\* null, undefined and every non-string)
parseQuantity(quantityStr) ==
  IF quantityStr = <<>> \/ quantityStr = <<"">> THEN Unparsed
  ELSE FirstOf(GramsRule(quantityStr[1]),
       FirstOf(PoundsRule(quantityStr[1]),
       FirstOf(MlRule(quantityStr[1]),
       FirstOf(RangeRule(quantityStr[1]),
       FirstOf(FractionRule(quantityStr[1]),
       FirstOf(GeneralRule(quantityStr[1]),
       FirstOf(QualitativeRule(quantityStr[1]), <<Unparsed>>)))))))[1]

\* obj[key] on a table: nullable
Prop(f, key) == IF key \in DOMAIN f THEN <<f[key]>> ELSE <<>>

\* the lower-case property names every object inherits from
\* Object.prototype (units and names are lower-cased before they are keys)
InheritedKeys == {"constructor"}

\* an inherited property read where a number is expected: a function,
\* which is truthy and whose product with a number is NaN
ObjectFunction == [k |-> "fn", n |-> 0, d |-> 1]
ToNumber(x) == IF x.k = "fn" THEN NaN ELSE x

\* obj[key] on a table of numbers: nullable
NumProp(f, key) ==
  IF key \in DOMAIN f THEN <<f[key]>>
  ELSE IF key \in InheritedKeys THEN <<ObjectFunction>> ELSE <<>>

\* a unit entry of measurements is a number or an object of numbers
UnitNumber(x) == [obj |-> FALSE, num |-> x, map |-> [key \in {} |-> Zero]]
UnitObject(m) == [obj |-> TRUE, num |-> Zero, map |-> m]
UnitTruthy(ud) == ud.obj \/ NumTruthy(ud.num)
UnitProp(ud, key) == IF ud.obj THEN NumProp(ud.map, key) ELSE <<>>

\* measurements[unit]: nullable; typeof of an inherited function is not
\* 'object', so it is used as a number is
UnitDataProp(m, key) ==
  IF key \in DOMAIN m THEN <<m[key]>>
  ELSE IF key \in InheritedKeys THEN <<UnitNumber(ObjectFunction)>> ELSE <<>>
Truthy(opt) == opt # <<>> /\ NumTruthy(opt[1])

\* property key of a nullable unit: null reads as the key "null"
UnitKey(unit) == IF unit = <<>> THEN "null" ELSE unit[1]

defaultConversions ==
  ("cup" :> Num(150)) @@ ("tablespoon" :> Num(15)) @@ ("teaspoon" :> Num(5)) @@
  ("piece" :> Num(30)) @@ ("clove" :> Num(5)) @@ ("inch" :> Num(10)) @@
  ("handful" :> Num(30)) @@ ("pinch" :> Fin(1, 2))

MediumDefault == 120
UnknownUnitDefault == 10

\* lines 120-128: grams of one piece, nullable
PieceGrams(m, normalizedIngredient) ==
  With(Prop(m, "piece"), LAMBDA piece :
    IF piece = <<>> \/ ~UnitTruthy(piece[1]) THEN <<>>
    ELSE IF Truthy(UnitProp(piece[1], normalizedIngredient))
      THEN UnitProp(piece[1], normalizedIngredient)
    ELSE IF Truthy(UnitProp(piece[1], "default")) THEN UnitProp(piece[1], "default")
    ELSE <<>>)

\* lines 130-139: grams of one medium item
MediumGrams(m, normalizedIngredient) ==
  With(Prop(m, "medium"), LAMBDA medium :
    IF medium # <<>> /\ UnitTruthy(medium[1]) /\ Truthy(UnitProp(medium[1], normalizedIngredient))
      THEN UnitProp(medium[1], normalizedIngredient)[1]
    ELSE Num(MediumDefault))

\* lines 142-152: the factor of the ingredient's category for the unit, nullable
CategoryGrams(hm, key, normalizedIngredient) ==
  With(Prop(hm.ingredients, normalizedIngredient), LAMBDA category :
    IF category = <<>> \/ category = <<"">> THEN <<>>
    ELSE With(Prop(hm.ingredientCategories, category[1]), LAMBDA factors :
           IF factors = <<>> THEN <<>>
           ELSE With(NumProp(factors[1], key), LAMBDA factor :
                  IF Truthy(factor) THEN factor ELSE <<>>)))

\* lines 155-173: the factor of measurements[unit], nullable
UnitGrams(m, unit, normalizedIngredient) ==
  With(IF unit = <<>> \/ unit = <<"">> THEN <<>> ELSE UnitDataProp(m, unit[1]), LAMBDA unitData :
    IF unitData = <<>> \/ ~UnitTruthy(unitData[1]) THEN <<>>
    ELSE IF ~unitData[1].obj THEN <<unitData[1].num>>
    ELSE IF Truthy(UnitProp(unitData[1], normalizedIngredient))
      THEN UnitProp(unitData[1], normalizedIngredient)
    ELSE IF Truthy(UnitProp(unitData[1], "default")) THEN UnitProp(unitData[1], "default")
    ELSE <<Num(UnknownUnitDefault)>>)

\* lines 178-189: defaultConversions[unit] || 10
FallbackGrams(key) ==
  With(NumProp(defaultConversions, key), LAMBDA fallback :
    IF Truthy(fallback) THEN fallback[1] ELSE Num(UnknownUnitDefault))

\* convertToGrams(parsedQuantity, mappedIngredientName) on the table hm;
\* mappedIngredientName is nullable
convertToGramsOn(hm, parsedQuantity, mappedIngredientName) ==
  With(parsedQuantity.value, LAMBDA value :
  With(parsedQuantity.unit, LAMBDA unit :
  With(IF mappedIngredientName = <<>> \/ mappedIngredientName = <<"">> THEN ""
       ELSE Trim(ToLowerCase(mappedIngredientName[1])), LAMBDA normalizedIngredient :
  With(IF unit = <<"piece">> THEN PieceGrams(hm.measurements, normalizedIngredient)
       ELSE <<>>, LAMBDA pieceGrams :
  With(CategoryGrams(hm, UnitKey(unit), normalizedIngredient), LAMBDA categoryGrams :
  With(UnitGrams(hm.measurements, unit, normalizedIngredient), LAMBDA unitGrams :
    IF unit = <<"g">> THEN value
    ELSE IF unit = <<"ml">> THEN value
    ELSE IF pieceGrams # <<>> THEN JsMul(value, ToNumber(pieceGrams[1]))
    ELSE IF unit = <<"medium">>
      THEN JsMul(value, ToNumber(MediumGrams(hm.measurements, normalizedIngredient)))
    ELSE IF categoryGrams # <<>> THEN JsMul(value, ToNumber(categoryGrams[1]))
    ELSE IF unitGrams # <<>> THEN JsMul(value, ToNumber(unitGrams[1]))
    ELSE JsMul(value, ToNumber(FallbackGrams(UnitKey(unit))))))))))

convertToGrams(parsedQuantity, mappedIngredientName) ==
  convertToGramsOn(householdMeasurements, parsedQuantity, mappedIngredientName)

\* standardizeToGrams(quantity, mappedIngredientName)
standardizeToGrams(quantity, mappedIngredientName) ==
  convertToGrams(parseQuantity(quantity), mappedIngredientName)

(***************************************************************************)
(* IngredientMapper                                                        *)
(***************************************************************************)
wordsToRemove ==
  << "chopped", "diced", "sliced", "minced", "grated", "cubed", "pureed",
     "finely", "roughly", "cut into", "cubes", "paste",
     "fresh", "dried", "powder", "whole", "leaves", "seeds",
     "boneless", "skinless", "plain",
     "for garnish", "to taste", "as needed", "as required",
     "medium", "large", "small",
     "1-inch", "pieces" >>

\* the unit alternation of quantityRegex, in its order
quantityUnits ==
  << "cup", "tablespoon", "teaspoon", "tsp", "tbsp", "g", "kg", "ml", "l",
     "pound", "lb", "oz", "katori", "glass" >>

\* \b between s[p-1] and s[p]
Boundary(s, p) == IsWord(CharAt(s, p - 1)) # IsWord(CharAt(s, p))

\* \d+(\.\d+)?\s*\/?\d*\s* matched at i: position of the first character
\* after it, 0 when s[i] is no digit
QuantityNumberEnd(s, i) ==
  With(NumberEnd(s, i), LAMBDA e :
  With(SpacesEnd(s, e + 1) + 1, LAMBDA a :
  With(IF CharAt(s, a) = "/" THEN a + 1 ELSE a, LAMBDA b :
    IF e < i THEN 0 ELSE SpacesEnd(s, DigitsEnd(s, b) + 1) + 1)))

\* ends of (unit)s? for the k-th unit at p, in the order the matcher tries them
UnitEndsOf(s, p, u) ==
  IF ~StartsAt(s, u, p) THEN <<>>
  ELSE IF CharAt(s, p + Len(u)) = "s" THEN <<p + Len(u), p + Len(u) - 1>>
  ELSE <<p + Len(u) - 1>>

\* ends of (unit)s? at p, in the order the matcher tries them
UnitEnds(s, p) ==
  LET all[k \in 0..Len(quantityUnits)] ==
        IF k = 0 THEN <<>> ELSE all[k - 1] \o UnitEndsOf(s, p, quantityUnits[k])
  IN all[Len(quantityUnits)]

\* first alternative of quantityRegex, anchored at the start: end of the
\* match, 0 if none
LeadingQuantityEnd(s) ==
  With(QuantityNumberEnd(s, 1), LAMBDA p :
    IF p = 0 THEN 0
    ELSE With(UnitEnds(s, p), LAMBDA ends :
         With({k \in 1..Len(ends) : Boundary(s, ends[k] + 1)}, LAMBDA ok :
           IF ok = {} THEN 0 ELSE ends[Min(ok)])))

\* second alternative of quantityRegex matches at i up to the end of s
TrailingQuantityAt(s, i) ==
  With(QuantityNumberEnd(s, i), LAMBDA p :
    IF ~Boundary(s, i) \/ p = 0 THEN FALSE
    ELSE With(UnitEnds(s, p), LAMBDA ends : \E k \in 1..Len(ends) : ends[k] = Len(s)))

\* s.replace(quantityRegex, ''): the leftmost match is removed
RemoveQuantity(s) ==
  With(LeadingQuantityEnd(s), LAMBDA lead :
    IF lead # 0 THEN SubSeq(s, lead + 1, Len(s))
    ELSE With({i \in 1..Len(s) : TrailingQuantityAt(s, i)}, LAMBDA hits :
           IF hits = {} THEN s ELSE SubSeq(s, 1, Min(hits) - 1)))

\* s.replace(new RegExp(`\\b${word}\\b`, 'gi'), '') on a lower-case s.
\* No word of wordsToRemove can overlap another occurrence of itself, so
\* every occurrence between word boundaries is a match of the global scan.
RemoveWord(s, word) ==
  With({j \in 1..Len(s) : StartsAt(s, word, j) /\ Boundary(s, j) /\ Boundary(s, j + Len(word))},
       LAMBDA matches :
    IF matches = {} THEN s
    ELSE Join([i \in 1..Len(s) |->
                 IF \E j \in matches : j <= i /\ i < j + Len(word) THEN "" ELSE CharAt(s, i)]))

\* wordsToRemove.forEach(...) restricted to the words lo..hi, in order
RECURSIVE RemoveWords(_, _, _)
RemoveWords(s, lo, hi) ==
  IF lo > hi THEN s
  ELSE IF lo = hi THEN RemoveWord(s, wordsToRemove[lo])
  ELSE With(RemoveWords(s, lo, (lo + hi) \div 2), LAMBDA done :
         RemoveWords(done, (lo + hi) \div 2 + 1, hi))

\* s.replace(/[(),:]/g, '')
RemovePunctuation(s) ==
  Join([i \in 1..Len(s) |-> IF CharAt(s, i) \in {"(", ")", ",", ":"} THEN "" ELSE CharAt(s, i)])

\* s.replace(/\s+/g, r)
ReplaceSpaces(s, r) ==
  Join([i \in 1..Len(s) |->
          IF ~IsSpace(CharAt(s, i)) THEN CharAt(s, i)
          ELSE IF IsSpace(CharAt(s, i - 1)) THEN "" ELSE r])

\* preprocessIngredientName(rawName)
preprocessIngredientName(rawName) ==
  IF rawName = "" THEN ""
  ELSE
  With(Trim(ToLowerCase(rawName)), LAMBDA lowered :
  With(Trim(RemoveQuantity(lowered)), LAMBDA noQuantity :
  With(RemoveWords(noQuantity, 1, Len(wordsToRemove)), LAMBDA noWords :
  With(RemovePunctuation(noWords), LAMBDA noPunctuation :
  With(Trim(ReplaceSpaces(noPunctuation, " ")), LAMBDA cleanedName :
    IF cleanedName = "ginger-garlic" THEN "ginger-garlic paste"
    ELSE IF cleanedName # "" THEN cleanedName
    ELSE lowered)))))

\* findInNutritionDB(ingredientName): the first row of that name, nullable
findInNutritionDB(ingredientName) ==
  With({i \in 1..Len(nutritionDB) : nutritionDB[i].ingredient = ingredientName}, LAMBDA rows :
    IF rows = {} THEN <<>> ELSE <<nutritionDB[Min(rows)]>>)

\* findAllInNutritionDB(ingredientName)
findAllInNutritionDB(ingredientName) ==
  IF Len(nutritionDB) = 0 \/ ingredientName = "" THEN <<>>
  ELSE With(ToLowerCase(ingredientName), LAMBDA searchTerm :
       With(ReplaceSpaces(searchTerm, "_"), LAMBDA searchTermUnderscore :
         SelectSeq(nutritionDB, LAMBDA item :
           Includes(item.ingredient, searchTerm)
             \/ Includes(item.ingredient, searchTermUnderscore))))

\* s.replace(/<suffix>$/, '')
StripSuffix(s, suffix) ==
  IF Len(s) >= Len(suffix) /\ StartsAt(s, suffix, Len(s) - Len(suffix) + 1)
    THEN SubSeq(s, 1, Len(s) - Len(suffix)) ELSE s

\* Array.prototype.find on a list: the first element satisfying P, nullable
Find(list, P(_)) ==
  With({i \in 1..Len(list) : P(list[i])}, LAMBDA hits :
    IF hits = {} THEN <<>> ELSE <<list[Min(hits)]>>)

\* the last of the shortest names of a non-empty list, as a sort that
\* reverses rows of equal length would put first
ShortestLast(list) ==
  With({i \in 1..Len(list) : \A j \in 1..Len(list) :
          Len(list[i].ingredient) <= Len(list[j].ingredient)}, LAMBDA shortest :
    list[CHOOSE i \in shortest : \A j \in shortest : j <= i])

\* list.sort((a, b) => a.ingredient.length - b.ingredient.length)[0] on a
\* non-empty list: the sort is stable, so the first of the shortest names
ShortestFirst(list) ==
  Find(list, LAMBDA item : \A j \in 1..Len(list) : Len(item.ingredient) <= Len(list[j].ingredient))[1]

\* a value returned by standardizeIngredientName before any await
Resolved(name) == [ai |-> FALSE, name |-> name]

\* lines 232-250: the choice among the rows that contain the name
closestMatch(potentialMatches, normalized, normalizedWithUnderscores) ==
  With(Find(potentialMatches, LAMBDA item :
         item.ingredient = normalized \/ item.ingredient = normalizedWithUnderscores),
       LAMBDA exactMatch :
  With(Find(potentialMatches, LAMBDA item :
         item.ingredient = StripSuffix(normalized, "s")
           \/ item.ingredient = StripSuffix(normalizedWithUnderscores, "_s")),
       LAMBDA baseMatch :
    IF exactMatch # <<>> THEN exactMatch[1].ingredient
    ELSE IF baseMatch # <<>> THEN baseMatch[1].ingredient
    ELSE ShortestFirst(potentialMatches).ingredient))

\* standardizeIngredientName with the synonym lookup moved behind the search
\* for rows that contain the name
standardizeSyncSynonymLast(ingredientName) ==
  IF ingredientName = "" THEN Resolved(<<>>)
  ELSE
  With(Trim(preprocessIngredientName(ingredientName)), LAMBDA normalized :
  With(ReplaceSpaces(normalized, "_"), LAMBDA normalizedWithUnderscores :
  With(Prop(ingredientSynonyms, normalized), LAMBDA synonymTarget :
    IF normalized = "" THEN Resolved(<<>>)
    ELSE IF findInNutritionDB(normalizedWithUnderscores) # <<>>
      THEN Resolved(<<normalizedWithUnderscores>>)
    ELSE IF findInNutritionDB(normalized) # <<>> THEN Resolved(<<normalized>>)
    ELSE With(findAllInNutritionDB(normalized), LAMBDA potentialMatches :
           IF Len(potentialMatches) > 0
             THEN Resolved(<<closestMatch(potentialMatches, normalized,
                                          normalizedWithUnderscores)>>)
           ELSE IF synonymTarget # <<>> /\ synonymTarget # <<"">>
                     /\ findInNutritionDB(synonymTarget[1]) # <<>>
             THEN Resolved(synonymTarget)
             ELSE [ai |-> TRUE, name |-> <<>>]))))

\* standardizeIngredientName(ingredientName) up to the call of
\* getAiAssistedMatch: [ai |-> the external tier is reached,
\*                      name |-> the returned name, nullable]
standardizeSync(ingredientName) ==
  IF ingredientName = "" THEN Resolved(<<>>)
  ELSE
  With(Trim(preprocessIngredientName(ingredientName)), LAMBDA normalized :
  With(ReplaceSpaces(normalized, "_"), LAMBDA normalizedWithUnderscores :
  With(Prop(ingredientSynonyms, normalized), LAMBDA synonymTarget :
    IF normalized = "" THEN Resolved(<<>>)
    ELSE IF findInNutritionDB(normalizedWithUnderscores) # <<>>
      THEN Resolved(<<normalizedWithUnderscores>>)
    ELSE IF findInNutritionDB(normalized) # <<>> THEN Resolved(<<normalized>>)
    ELSE IF synonymTarget # <<>> /\ synonymTarget # <<"">>
              /\ findInNutritionDB(synonymTarget[1]) # <<>>
      THEN Resolved(synonymTarget)
    ELSE With(findAllInNutritionDB(normalized), LAMBDA potentialMatches :
           IF Len(potentialMatches) > 0
             THEN Resolved(<<closestMatch(potentialMatches, normalized,
                                          normalizedWithUnderscores)>>)
             ELSE [ai |-> TRUE, name |-> <<>>]))))

\* getAiAssistedMatch returns null before it calls generateText
aiSkipped(originalIngredientName) ==
  ~aiModel \/ originalIngredientName = "" \/ Len(dbIngredientNames) = 0

ListHas(list, x) == \E i \in 1..Len(list) : list[i] = x

\* getAiAssistedMatch without the membership test of line 370: the reply
\* is returned whenever it is non-empty and not "None"
aiMatchUnvalidated(response) ==
  IF response = <<>> THEN <<>>
  ELSE With(Trim(response[1]), LAMBDA bestMatch :
         IF bestMatch # "" /\ bestMatch # "None" THEN <<bestMatch>> ELSE <<>>)

\* getAiAssistedMatch after generateText has settled; response is the text
\* of the reply, or <<>> when the call threw
aiMatch(response) ==
  IF response = <<>> THEN <<>>
  ELSE With(Trim(response[1]), LAMBDA bestMatch :
         IF bestMatch # "" /\ bestMatch # "None" /\ ListHas(dbIngredientNames, bestMatch)
           THEN <<bestMatch>> ELSE <<>>)

(***************************************************************************)
(* ErrorHandler                                                            *)
(***************************************************************************)
NutrientKeys == {"calories", "protein", "carbs", "fat", "fiber"}

\* ErrorHandler.validateNutritionValues(nutrition), on a record whose
\* fields are numbers
validateNutritionValues(nutrition) ==
  With(IF JsGt(nutrition.calories, Num(1000))
         THEN [nutrition EXCEPT !.calories = Num(1000)] ELSE nutrition, LAMBDA capped :
  With([key \in DOMAIN capped |-> IF JsLt(capped[key], Zero) THEN Zero ELSE capped[key]],
       LAMBDA floored :
    [key \in DOMAIN floored |->
       IF key = "protein" /\ JsGt(nutrition.protein, Num(100)) THEN Num(100)
       ELSE IF key = "carbs" /\ JsGt(nutrition.carbs, Num(200)) THEN Num(200)
       ELSE IF key = "fat" /\ JsGt(nutrition.fat, Num(100)) THEN Num(100)
       ELSE floored[key]]))

(***************************************************************************)
(* NutritionCalculator                                                     *)
(***************************************************************************)
\* parseFloat(field || 0) on a CSV cell (always a string)
CellNumber(cell) == IF cell = "" THEN Zero ELSE ParseFloat(cell)

NanToZero(x) == IF IsNaN(x) THEN Zero ELSE x

\* lines 71-85: the nutrition of one ingredient from its row and weight
ingredientNutritionOf(nutritionData, quantityInGrams) ==
  LET scaled(cell) == JsDiv(JsMul(CellNumber(cell), quantityInGrams), Num(100))
  IN [calories |-> NanToZero(scaled(nutritionData.calories_per_100g)),
      protein  |-> NanToZero(scaled(nutritionData.protein_per_100g)),
      carbs    |-> NanToZero(scaled(nutritionData.carbs_per_100g)),
      fat      |-> NanToZero(scaled(nutritionData.fat_per_100g)),
      fiber    |-> NanToZero(scaled(nutritionData.fiber_per_100g))]

\* lines 59-100 of the map callback, once getNutritionData has returned for
\* the name stdName (nullable): the record pushed to processedIngredients
processedRecord(i, ingredient, stdName) ==
  With(IF stdName = <<>> THEN <<>> ELSE findInNutritionDB(stdName[1]), LAMBDA nutritionData :
  With(OrElse(ingredient.standardQuantity, ingredient.quantity), LAMBDA quantity :
  With(IF nutritionData = <<>> THEN <<>> ELSE <<nutritionData[1].ingredient>>, LAMBDA mappedName :
  With(IF nutritionData = <<>> THEN Zero ELSE standardizeToGrams(quantity, mappedName),
       LAMBDA quantityInGrams :
    [idx |-> i,
     ingredient |-> ingredient.name,
     mappedName |-> mappedName,
     quantity |-> quantity,
     weight_g |-> quantityInGrams,
     nutrition |-> IF nutritionData = <<>> THEN <<>>
                   ELSE <<ingredientNutritionOf(nutritionData[1], quantityInGrams)>>,
     error |-> <<>>]))))

NameTypeError == "Cannot read properties of undefined (reading 'toLowerCase')"

\* lines 87-100 when ingredient.name.toLowerCase() has thrown
failedRecord(i, ingredient) ==
  [idx |-> i,
   ingredient |-> ingredient.name,
   mappedName |-> <<>>,
   quantity |-> OrElse(ingredient.standardQuantity, ingredient.quantity),
   weight_g |-> Zero,
   nutrition |-> <<>>,
   error |-> <<NameTypeError>>]

ZeroNutrition ==
  [calories |-> Zero, protein |-> Zero, carbs |-> Zero, fat |-> Zero, fiber |-> Zero]

\* lines 104-113: one step of the forEach over processedIngredients
addIngredient(acc, procIngredient) ==
  IF procIngredient.nutrition # <<>>
    THEN [weight |-> JsAdd(acc.weight, procIngredient.weight_g),
          nutrition |-> [key \in NutrientKeys |->
                           JsAdd(acc.nutrition[key], procIngredient.nutrition[1][key])]]
    ELSE acc

\* lines 104-121: totals over the list, then NaN totals set to 0
aggregate(list) ==
  LET sum[k \in 0..Len(list)] ==
        IF k = 0 THEN [weight |-> Zero, nutrition |-> ZeroNutrition]
        ELSE addIngredient(sum[k - 1], list[k])
  IN With(sum[Len(list)], LAMBDA total :
       [weight |-> total.weight,
        nutrition |-> [key \in NutrientKeys |-> NanToZero(total.nutrition[key])]])

DefaultServingSize == 150

\* Math.round(x * 10) / 10 || 0
Tenths(x) == OrZero(JsDiv(MathRound(JsMul(x, Num(10))), Num(10)))

\* calculatePerServing(totalNutrition, totalWeight, dishType); the final
\* NaN validation runs in the known-dish-type branch only
calculatePerServing(totals, totalWeight, type) ==
  With(type \in DOMAIN householdMeasurements.foodTypes, LAMBDA known :
  With(IF known THEN householdMeasurements.foodTypes[type].serving
       ELSE Num(DefaultServingSize), LAMBDA servingSize :
  With(JsDiv(servingSize, IF NumTruthy(totalWeight) THEN totalWeight ELSE Num(1)), LAMBDA ratio :
  With([serving_size_g |-> servingSize,
        calories |-> OrZero(MathRound(JsMul(totals.calories, ratio))),
        protein |-> Tenths(JsMul(totals.protein, ratio)),
        carbs |-> Tenths(JsMul(totals.carbs, ratio)),
        fat |-> Tenths(JsMul(totals.fat, ratio)),
        fiber |-> Tenths(JsMul(totals.fiber, ratio))], LAMBDA result :
    IF known THEN [key \in DOMAIN result |-> NanToZero(result[key])] ELSE result))))

(***************************************************************************)
(* Tables the constructors load                                            *)
(***************************************************************************)
Row(name, calories, protein, carbs, fat, fiber) ==
  [ingredient |-> name, calories_per_100g |-> calories, protein_per_100g |-> protein,
   carbs_per_100g |-> carbs, fat_per_100g |-> fat, fiber_per_100g |-> fiber]

\* a table as scripts/processNutritionData.js writes it (names of letters,
\* digits and underscores), with one row of corrupt cells
PreparedDB ==
  << Row("onion", "40", "1.1", "9.3", "0.1", "1.7"),
     Row("tomato", "18", "0.9", "3.9", "0.2", "1.2"),
     Row("ghee", "900", "0", "0", "100", "0"),
     Row("red_chili_powder", "282", "13.5", "49.7", "14.3", "34.8"),
     Row("coriander_leaves", "23", "2.1", "3.7", "0.5", "2.8"),
     Row("corrupt_item", "abc", "-5", "", "2", "1") >>

\* a hand-written table: names with blanks and with words of wordsToRemove
HandWrittenDB ==
  << Row("onion powder", "341", "10.4", "79.1", "1", "15.2"),
     Row("onion", "40", "1.1", "9.3", "0.1", "1.7"),
     Row("dried", "250", "3", "60", "1", "7"),
     Row("green peas", "81", "5.4", "14.5", "0.4", "5.1"),
     Row("green_peas", "81", "5.4", "14.5", "0.4", "5.1"),
     Row("spring onions", "32", "1.8", "7.3", "0.2", "2.6"),
     Row("None", "0", "0", "0", "0", "0") >>

\* loadNutritionDBSync when the file is missing or unreadable
EmptyDB == <<>>

NutritionDBs == {PreparedDB, HandWrittenDB, EmptyDB}

\* getDefaultSynonyms()
defaultSynonyms ==
  ("onions" :> "onion") @@ ("tomatoes" :> "tomato") @@ ("ginger paste" :> "ginger") @@
  ("garlic paste" :> "garlic") @@ ("ginger garlic paste" :> "garlic") @@
  ("chopped tomato" :> "tomato") @@ ("chopped onion" :> "onion") @@
  ("potatoes" :> "potato") @@ ("cashews" :> "cashew") @@ ("yoghurt" :> "yogurt") @@
  ("dahi" :> "yogurt") @@ ("whole wheat flour" :> "wheat_flour") @@
  ("atta" :> "wheat_flour") @@ ("maida" :> "wheat_flour") @@
  ("red chili" :> "red_chili_powder") @@ ("lal mirch" :> "red_chili_powder") @@
  ("haldi" :> "turmeric_powder") @@ ("jeera" :> "cumin_seeds") @@
  ("dhaniya powder" :> "coriander_powder") @@ ("dhania powder" :> "coriander_powder") @@
  ("dhania" :> "coriander_leaves") @@ ("coriander" :> "coriander_leaves") @@
  ("pudina" :> "mint_leaves") @@ ("green peas" :> "green_peas") @@
  ("matar" :> "green_peas") @@ ("aloo" :> "potato") @@ ("gobi" :> "cauliflower") @@
  ("palak" :> "spinach") @@ ("moong dal" :> "moong_dal") @@ ("toor dal" :> "toor_dal") @@
  ("arhar dal" :> "toor_dal") @@ ("chana dal" :> "chana_dal")

\* a data/ingredientSynonyms.json that holds regional names only
regionalSynonyms ==
  ("pyaaz" :> "onion") @@ ("tamatar" :> "tomato") @@ ("mirch" :> "chili") @@
  ("lal mirch" :> "red_chili_powder") @@ ("dhania" :> "coriander_leaves") @@
  ("peas" :> "green_peas") @@ ("powder" :> "masala")

SynonymTables == {defaultSynonyms, regionalSynonyms}

NoEntries == [key \in {} |-> Zero]

\* a data/householdMeasurements.json with all three levels filled
fullMeasurements ==
  [measurements |->
     ("piece" :> UnitObject(("potato" :> Num(150)) @@ ("default" :> Num(50)))) @@
     ("medium" :> UnitObject(("onion" :> Num(120)) @@ ("tomato" :> Num(100)))) @@
     ("cup" :> UnitObject(("default" :> Num(240)) @@ ("ghee" :> Num(220)) @@
                          ("onion" :> Num(150)))) @@
     ("tablespoon" :> UnitNumber(Num(15))) @@
     ("katori" :> UnitObject(("onion" :> Num(0)))),
   ingredients |-> ("coriander_leaves" :> "leafy_green") @@ ("onion" :> "vegetable"),
   ingredientCategories |->
     ("leafy_green" :> (("cup" :> Num(30)) @@ ("tablespoon" :> Num(2)))) @@
     ("vegetable" :> ("cup" :> Num(160))),
   foodTypes |-> ("Dal" :> [serving |-> Num(200)]) @@ ("Roti" :> [serving |-> Num(40)])]

\* a data/householdMeasurements.json with empty sections
sparseMeasurements ==
  [measurements |-> [key \in {} |-> UnitNumber(Zero)],
   ingredients |-> [key \in {} |-> ""],
   ingredientCategories |-> [key \in {} |-> NoEntries],
   foodTypes |-> [key \in {} |-> [serving |-> Zero]]]

MeasurementTables == {fullMeasurements, sparseMeasurements}

(***************************************************************************)
(* Inputs                                                                  *)
(***************************************************************************)
MaxIngredients == 2

Entry(name, standardQuantity, quantity) ==
  <<[name |-> name, standardQuantity |-> standardQuantity, quantity |-> quantity]>>

\* entries of a recipe's ingredient list; <<>> is a null entry, a name
\* <<>> a missing or non-string name
IngredientEntries ==
  { Entry(<<"onions">>, <<>>, <<"2 medium">>),
    Entry(<<"Ghee">>, <<"500 g">>, <<>>),
    Entry(<<"xyz">>, <<"1 cup">>, <<>>),
    Entry(<<"tomato">>, <<>>, <<"1/0 cup">>),
    Entry(<<"chopped tomato">>, <<"-3 cup">>, <<>>),
    Entry(<<"corrupt_item">>, <<"100 g">>, <<"1 cup">>),
    Entry(<<"corrupt_item">>, <<>>, <<"1/0 cup">>),
    Entry(<<>>, <<"1 cup">>, <<>>),
    <<>> }

RECURSIVE ListsUpTo(_, _)
ListsUpTo(S, n) ==
  IF n = 0 THEN {<<>>}
  ELSE ListsUpTo(S, n - 1) \cup {Append(l, x) : l \in {m \in ListsUpTo(S, n - 1) : Len(m) = n - 1}, x \in S}

IngredientLists == ListsUpTo(IngredientEntries, MaxIngredients)

\* outcomes of generateText: <<>> when it throws, else the reply text
AiReplies == {<<>>, <<"None">>, <<" onion ">>, <<"olive_oil">>}

DishTypes == {"Dal", "main_course"}

(***************************************************************************)
(* State after construction                                                *)
(***************************************************************************)
NoCall ==
  /\ ingredients = <<>>
  /\ pc = <<>>
  /\ standardName = <<>>
  /\ microQ = <<>>
  /\ processedIngredients = <<>>
  /\ totalNutrition = ZeroNutrition
  /\ totalWeightInGrams = Zero
  /\ status = "idle"
  /\ dishType = ""
  /\ perServing = <<>>

NoQuantityCall == qPhrase = <<>> /\ qName = <<>> /\ qParsed = <<>> /\ qGrams = <<>>

NoResolveCall == rName = "" /\ rPc = "idle" /\ rReply = <<>> /\ rResult = <<>>
NoPreviousCall == previous = <<>>
NoEstimateCall == eDish = <<>> /\ ePc = "idle" /\ eRecipe = <<>> /\ eResult = <<>>

\* new IngredientMapper(aiModel), new QuantityStandardizer()
Constructed ==
  /\ nutritionDB \in NutritionDBs
  /\ dbIngredientNames = [i \in 1..Len(nutritionDB) |-> nutritionDB[i].ingredient]
  /\ ingredientSynonyms \in SynonymTables
  /\ aiModel \in BOOLEAN
  /\ householdMeasurements \in MeasurementTables

\* a service whose nutrition database is the prepared one, or failed to load
Init ==
  /\ Constructed /\ nutritionDB \in {PreparedDB, EmptyDB}
  /\ NoCall /\ NoQuantityCall /\ NoResolveCall /\ NoPreviousCall /\ NoEstimateCall

tables == <<nutritionDB, dbIngredientNames, ingredientSynonyms, aiModel, householdMeasurements>>
calcVars == <<ingredients, pc, standardName, microQ, processedIngredients,
              totalNutrition, totalWeightInGrams, status, dishType, perServing>>
estimateVars == <<eDish, ePc, eRecipe, eResult>>
callVars == <<calcVars, previous, estimateVars>>
qtyVars == <<qPhrase, qName, qParsed, qGrams>>
resolveVars == <<rName, rPc, rReply, rResult>>

(***************************************************************************)
(* calculateNutrition                                                      *)
(***************************************************************************)
\* ingredient.name.toLowerCase().trim()
ingredientNameOf(ingredient) == Trim(ToLowerCase(ingredient.name[1]))

\* where the map callback of entry e stands when the synchronous part of
\* ingredients.map(...) has run
syncOutcome(e) ==
  IF e = <<>> THEN "threw"
  ELSE IF e[1].name = <<>> THEN "done"
  ELSE IF ~standardizeSync(ingredientNameOf(e[1])).ai THEN "gnd"
  ELSE IF aiSkipped(ingredientNameOf(e[1])) THEN "std"
  ELSE "ai"

\* the microtasks queued by the synchronous part, in input order
syncQueue(list, outcome) ==
  LET q[k \in 0..Len(list)] ==
        IF k = 0 THEN <<>>
        ELSE q[k - 1] \o (CASE outcome[k] = "threw" -> <<<<k, "throw">>>>
                            [] outcome[k] = "gnd" -> <<<<k, "gnd">>>>
                            [] outcome[k] = "std" -> <<<<k, "std">>>>
                            [] OTHER -> <<>>)
  IN q[Len(list)]

\* the records pushed by the synchronous part (names that made
\* toLowerCase throw), in input order
syncPushed(list) ==
  LET q[k \in 0..Len(list)] ==
        IF k = 0 THEN <<>>
        ELSE q[k - 1] \o (IF list[k] # <<>> /\ list[k][1].name = <<>>
                            THEN <<failedRecord(k, list[k][1])>> ELSE <<>>)
  IN q[Len(list)]

\* calculateNutrition(list) up to the await of Promise.all: what it does
\* to its locals
calculateNutritionStarts(list) ==
  /\ status = "idle"
  /\ LET outcome == [i \in 1..Len(list) |-> syncOutcome(list[i])]
     IN /\ outcome = outcome
        /\ ingredients' = list
        /\ pc' = [i \in 1..Len(list) |->
                    IF outcome[i] \in {"gnd", "std"} THEN "queued" ELSE outcome[i]]
        /\ standardName' = [i \in 1..Len(list) |->
                    IF outcome[i] = "gnd"
                      THEN standardizeSync(ingredientNameOf(list[i][1])).name ELSE <<>>]
        /\ microQ' = syncQueue(list, outcome)
        /\ processedIngredients' = syncPushed(list)
  /\ totalNutrition' = ZeroNutrition
  /\ totalWeightInGrams' = Zero
  /\ status' = "running"
  /\ dishType' = ""
  /\ perServing' = <<>>

\* calculateNutrition(list) is called from outside the service
calculateNutritionOf(list) ==
  /\ calculateNutritionStarts(list)
  /\ UNCHANGED <<tables, qtyVars, resolveVars, previous, estimateVars>>

\* calculateNutrition(ingredients) is called
CallCalculateNutrition == \E list \in IngredientLists : calculateNutritionOf(list)

\* the microtask at the head of the queue runs:
\*   "std"   standardizeIngredientName resumes after getAiAssistedMatch
\*   "gnd"   getNutritionData resumes after standardizeIngredientName
\*   "cb"    the map callback resumes after getNutritionData and pushes
\*   "throw" Promise.all rejects, and calculateNutrition with it
RunMicrotask ==
  /\ microQ # <<>>
  /\ LET i == Head(microQ)[1]
         stage == Head(microQ)[2]
     IN /\ microQ' = Tail(microQ) \o (CASE stage = "std" -> <<<<i, "gnd">>>>
                                        [] stage = "gnd" -> <<<<i, "cb">>>>
                                        [] OTHER -> <<>>)
        /\ processedIngredients' =
             IF stage = "cb"
               THEN Append(processedIngredients, processedRecord(i, ingredients[i][1], standardName[i]))
               ELSE processedIngredients
        /\ pc' = IF stage = "cb" THEN [pc EXCEPT ![i] = "done"] ELSE pc
        /\ status' = IF stage = "throw" /\ status = "running" THEN "rejected" ELSE status
  /\ UNCHANGED <<tables, ingredients, standardName, totalNutrition, totalWeightInGrams,
                 dishType, perServing, qtyVars, resolveVars, previous, estimateVars>>

\* generateText settles for ingredient i (any order, once the microtask
\* queue is drained); getAiAssistedMatch validates the reply
AiSettle ==
  /\ microQ = <<>>
  /\ \E i \in 1..Len(pc) : \E reply \in AiReplies :
       /\ pc[i] = "ai"
       /\ standardName' = [standardName EXCEPT ![i] = aiMatch(reply)]
       /\ pc' = [pc EXCEPT ![i] = "queued"]
       /\ microQ' = <<<<i, "std">>>>
  /\ UNCHANGED <<tables, ingredients, processedIngredients, totalNutrition,
                 totalWeightInGrams, status, dishType, perServing, qtyVars, resolveVars, previous, estimateVars>>

\* the aggregation of lines 103-127 run without waiting for the callbacks
\* that are suspended on the matcher
ReturnWithoutAwait ==
  /\ status = "running"
  /\ microQ = <<>>
  /\ totalNutrition' = aggregate(processedIngredients).nutrition
  /\ totalWeightInGrams' = aggregate(processedIngredients).weight
  /\ status' = "returned"
  /\ UNCHANGED <<tables, ingredients, pc, standardName, microQ, processedIngredients,
                 dishType, perServing, qtyVars, resolveVars, previous, estimateVars>>

\* Promise.all has resolved: lines 103-127
ReturnCalculateNutrition ==
  /\ status = "running"
  /\ microQ = <<>>
  /\ \A i \in 1..Len(pc) : pc[i] = "done"
  /\ totalNutrition' = aggregate(processedIngredients).nutrition
  /\ totalWeightInGrams' = aggregate(processedIngredients).weight
  /\ status' = "returned"
  /\ UNCHANGED <<tables, ingredients, pc, standardName, microQ, processedIngredients,
                 dishType, perServing, qtyVars, resolveVars, previous, estimateVars>>

\* calculatePerServing(totalNutrition, totalWeightInGrams, dishType) on the
\* returned totals
CallCalculatePerServing ==
  /\ status = "returned"
  /\ \E type \in DishTypes :
       /\ dishType' = type
       /\ perServing' = <<calculatePerServing(totalNutrition, totalWeightInGrams, type)>>
  /\ status' = "served"
  /\ UNCHANGED <<tables, ingredients, pc, standardName, microQ, processedIngredients,
                 totalNutrition, totalWeightInGrams, qtyVars, resolveVars, previous, estimateVars>>

Next ==
  \/ CallCalculateNutrition
  \/ RunMicrotask
  \/ AiSettle
  \/ ReturnCalculateNutrition
  \/ CallCalculatePerServing

Spec == Init /\ [][Next]_vars

(***************************************************************************)
(* Properties of calculateNutrition and calculatePerServing                *)
(***************************************************************************)
Returned == status \in {"returned", "served"}

\* the returned records whose nutrition is non-null
Contributing == SelectSeq(processedIngredients, LAMBDA r : r.nutrition # <<>>)

\* the sum of the records' weights
RECURSIVE SumWeight(_)
SumWeight(list) ==
  IF list = <<>> THEN Zero
  ELSE JsAdd(SumWeight(SubSeq(list, 1, Len(list) - 1)), list[Len(list)].weight_g)

\* the sum of one nutrient over records whose nutrition is non-null
RECURSIVE SumNutrient(_, _)
SumNutrient(list, key) ==
  IF list = <<>> THEN Zero
  ELSE JsAdd(SumNutrient(SubSeq(list, 1, Len(list) - 1), key),
             list[Len(list)].nutrition[1][key])

NonNegative(x) == IsFinite(x) /\ x.n >= 0
AtLeastZero(x) == ~IsNaN(x) /\ ~JsLt(x, Zero)

\* C1: the totals calculateNutrition returns (the five nutrients and the
\* total weight) equal the sum over exactly the records whose nutrition is
\* non-null, and a record whose name is unresolved has no nutrition and
\* weight 0, so it adds 0 to every total.
C1_TotalsEqualSumOfResolved ==
  Returned =>
    /\ totalWeightInGrams = SumWeight(Contributing)
    /\ \A key \in NutrientKeys : totalNutrition[key] = SumNutrient(Contributing, key)
    /\ \A i \in 1..Len(processedIngredients) :
         processedIngredients[i].mappedName = <<>> =>
           /\ processedIngredients[i].nutrition = <<>>
           /\ processedIngredients[i].weight_g = Zero

\* the call has returned totals that are not the sum of the records
C1_SumIsNotANumber ==
  /\ Returned
  /\ \E key \in NutrientKeys :
       IsNaN(SumNutrient(Contributing, key)) /\ totalNutrition[key] = Zero

\* C2: every returned record has its nutrition populated, or else its error
\* populated and its nutrition null; a name that resolves to null gives a
\* record with null nutrition and a populated error.
C2_NutritionOrError ==
  Returned =>
    \A i \in 1..Len(processedIngredients) :
      \/ processedIngredients[i].nutrition # <<>>
      \/ processedIngredients[i].error # <<>> /\ processedIngredients[i].nutrition = <<>>

\* a returned record of a name that resolved to null: no nutrition, no error
C2_UnresolvedWithoutError ==
  /\ Returned
  /\ \E i \in 1..Len(processedIngredients) :
       /\ processedIngredients[i].ingredient = <<"xyz">>
       /\ processedIngredients[i].nutrition = <<>>
       /\ processedIngredients[i].error = <<>>

\* C3: no failure of one ingredient aborts calculateNutrition: the call is
\* never rejected, and when it returns there is a record for every entry
\* of the list.
C3_NeverAborts ==
  /\ status # "rejected"
  /\ Returned => Len(processedIngredients) = Len(ingredients)

\* the call was rejected because of a null entry
C3_RejectedOnNullEntry ==
  /\ status = "rejected"
  /\ \E i \in 1..Len(ingredients) : ingredients[i] = <<>>

\* C5: in every result of calculateNutrition and of calculatePerServing
\* every nutrient field (of a record, of the totals, per serving) is a
\* finite number >= 0, and every weight_g and the total weight are >= 0.
C5_FiniteNonNegative ==
  /\ Returned =>
       /\ \A i \in 1..Len(processedIngredients) :
            /\ AtLeastZero(processedIngredients[i].weight_g)
            /\ processedIngredients[i].nutrition # <<>> =>
                 \A key \in NutrientKeys :
                   NonNegative(processedIngredients[i].nutrition[1][key])
       /\ \A key \in NutrientKeys : NonNegative(totalNutrition[key])
       /\ AtLeastZero(totalWeightInGrams)
  /\ status = "served" =>
       \A key \in NutrientKeys : NonNegative(perServing[1][key])

\* a returned record with an infinite nutrient, and one with a negative one
C5_InfiniteNutrient ==
  /\ Returned
  /\ \E i \in 1..Len(processedIngredients) :
       /\ processedIngredients[i].nutrition # <<>>
       /\ processedIngredients[i].nutrition[1].calories = PosInf
  /\ \E i \in 1..Len(processedIngredients) :
       /\ processedIngredients[i].nutrition # <<>>
       /\ processedIngredients[i].nutrition[1].protein = Fin(-5, 1)

\* C6: the per-serving values are clamped after scaling: calories at most
\* 1000, protein at most 100, carbs at most 200, fat at most 100, and no
\* value below 0.
C6_PerServingClamped ==
  status = "served" =>
    /\ ~JsGt(perServing[1].calories, Num(1000))
    /\ ~JsGt(perServing[1].protein, Num(100))
    /\ ~JsGt(perServing[1].carbs, Num(200))
    /\ ~JsGt(perServing[1].fat, Num(100))
    /\ \A key \in NutrientKeys : ~JsLt(perServing[1][key], Zero)

\* 500 g of ghee served as a dish of unknown type: 1350 kcal per serving
C6_GheeServing ==
  /\ status = "served"
  /\ dishType = "main_course"
  /\ Len(processedIngredients) = 1
  /\ processedIngredients[1].mappedName = <<"ghee">>
  /\ perServing[1].calories = Num(1350)

\* C9: with the row onion (40 kcal per 100 g) in the nutrition database
\* and 120 g per medium onion, and no other entry for "onions" in the
\* database or the synonyms, the ingredient onions, "2 medium" is recorded
\* as onion, 240 g, 96 kcal.
C9_TwoMediumOnions ==
  (Returned /\ nutritionDB = PreparedDB /\ householdMeasurements = fullMeasurements) =>
    \A i \in 1..Len(processedIngredients) :
      (processedIngredients[i].ingredient = <<"onions">>
         /\ processedIngredients[i].quantity = <<"2 medium">>) =>
        /\ processedIngredients[i].mappedName = <<"onion">>
        /\ processedIngredients[i].weight_g = Num(240)
        /\ processedIngredients[i].nutrition # <<>>
        /\ processedIngredients[i].nutrition[1].calories = Num(96)

\* the scenario with the default synonyms: onion, 240 g, 96 kcal
C9_ResolvedBySynonym ==
  /\ Returned /\ nutritionDB = PreparedDB /\ householdMeasurements = fullMeasurements
  /\ ingredientSynonyms = defaultSynonyms
  /\ Len(processedIngredients) = 1
  /\ processedIngredients[1].ingredient = <<"onions">>
  /\ processedIngredients[1].mappedName = <<"onion">>
  /\ processedIngredients[1].weight_g = Num(240)
  /\ processedIngredients[1].nutrition[1].calories = Num(96)

\* the scenario with synonyms that have no key "onions": unresolved
C9_UnresolvedWithoutSynonym ==
  /\ Returned /\ nutritionDB = PreparedDB /\ householdMeasurements = fullMeasurements
  /\ "onions" \notin DOMAIN ingredientSynonyms
  /\ Len(processedIngredients) = 1
  /\ processedIngredients[1].ingredient = <<"onions">>
  /\ processedIngredients[1].mappedName = <<>>
  /\ processedIngredients[1].nutrition = <<>>

(***************************************************************************)
(* standardizeToGrams as a function of its arguments                       *)
(***************************************************************************)
MaxGramTicks == 125
MaxDecimals == 2

\* decimal digits of a natural number
RECURSIVE NatToString(_)
NatToString(n) ==
  IF n < 10 THEN SubSeq("0123456789", n + 1, n + 1)
  ELSE NatToString(n \div 10) \o SubSeq("0123456789", (n % 10) + 1, (n % 10) + 1)

\* the last d decimal digits of n, zero-padded
RECURSIVE LastDigits(_, _)
LastDigits(n, d) ==
  IF d = 0 THEN ""
  ELSE LastDigits(n \div 10, d - 1) \o SubSeq("0123456789", (n % 10) + 1, (n % 10) + 1)

\* the decimal numeral of ticks / 10^decimals, with exactly that many
\* fraction digits
Numeral(ticks, decimals) ==
  IF decimals = 0 THEN NatToString(ticks)
  ELSE NatToString(ticks \div Pow10(decimals)) \o "." \o LastDigits(ticks, decimals)

\* the phrases "<n> g", n a non-negative integer or decimal
GramPhrases ==
  {Numeral(ticks, decimals) \o " g" : ticks \in 0..MaxGramTicks, decimals \in 0..MaxDecimals}

MaxRangeTicks == 3

\* the ends of a range: integers, and decimals with one fraction digit
RangeEnds == {[ticks |-> t, decimals |-> d] : t \in 0..MaxRangeTicks, d \in 0..1}

\* what follows the second end, and the unit it names
RangeUnits ==
  {[text |-> "tablespoon", unit |-> "tablespoon"], [text |-> "Cloves", unit |-> "cloves"],
   [text |-> "large onions", unit |-> "large"], [text |-> "ml", unit |-> "ml"],
   [text |-> "green chilies", unit |-> "green"]}

\* the phrases "a-b X" and "a - b X", with the mean of a and b and the unit
RangeCases ==
  {[phrase |-> Numeral(a.ticks, a.decimals) \o sep \o Numeral(b.ticks, b.decimals)
                 \o " " \o x.text,
    mean |-> Fin(a.ticks * Pow10(b.decimals) + b.ticks * Pow10(a.decimals),
                 2 * Pow10(a.decimals) * Pow10(b.decimals)),
    unit |-> x.unit] : a \in RangeEnds, b \in RangeEnds, x \in RangeUnits, sep \in {"-", " - "}}

\* quantity arguments: <<>> is null, undefined or a non-string
QuantityArgs ==
  {<<>>, <<"">>, <<"2 medium">>, <<"1 cup">>, <<"-3 cup">>, <<"1/0 cup">>, <<"0/0 cup">>,
   <<"1/2 cup">>, <<"2-3 tablespoon">>, <<"to taste">>, <<"a pinch">>, <<"3">>,
   <<"2 piece">>, <<"1 lb">>, <<"250 ml">>, <<"1 katori">>, <<"1.5 teaspoon">>,
   <<"2 garlic cloves">>, <<"1 glass">>, <<"Infinity-2 cup">>, <<".5 g">>, <<"5. g">>,
   <<"as needed">>, <<"as required">>, <<"Salt To Taste">>, <<"garnish as needed">>,
   <<"2 tablespoon to taste">>, <<"to taste - as needed">>, <<"2 constructor">>,
   <<"3 handful">>}
    \cup {<<phrase>> : phrase \in GramPhrases}
    \cup {<<case.phrase>> : case \in RangeCases}

\* mappedIngredientName arguments: canonical names and null
MappedNameArgs ==
  {<<>>, <<"onion">>, <<"ghee">>, <<"coriander_leaves">>, <<"tomato">>, <<"potato">>}

InitQuantity ==
  /\ Constructed /\ nutritionDB = PreparedDB /\ ingredientSynonyms = defaultSynonyms /\ aiModel
  /\ NoCall /\ NoQuantityCall /\ NoResolveCall /\ NoPreviousCall /\ NoEstimateCall

\* standardizeToGrams(quantity, mappedIngredientName)
CallStandardizeToGrams ==
  /\ qPhrase = <<>>
  /\ \E quantity \in QuantityArgs, mappedIngredientName \in MappedNameArgs :
       /\ qPhrase' = <<quantity>>
       /\ qName' = mappedIngredientName
       /\ qParsed' = <<parseQuantity(quantity)>>
       /\ qGrams' = <<standardizeToGrams(quantity, mappedIngredientName)>>
  /\ UNCHANGED <<tables, callVars, resolveVars>>

NextQuantity == CallStandardizeToGrams

SpecQuantity == InitQuantity /\ [][NextQuantity]_vars

(***************************************************************************)
(* standardizeIngredientName as a function of its argument and of the      *)
(* reply of generateText                                                   *)
(***************************************************************************)
\* names passed to standardizeIngredientName: every name of the two
\* tables, and phrases as recipes write them
RawNames ==
  {PreparedDB[i].ingredient : i \in 1..Len(PreparedDB)}
    \cup {HandWrittenDB[i].ingredient : i \in 1..Len(HandWrittenDB)}
    \cup {"", "onions", "Onions", "2 cups chopped onion", "xyz", "red chili",
          "pyaaz", "peas", "fresh coriander leaves", "powder", "mirch"}

InitResolve ==
  /\ Constructed /\ householdMeasurements = fullMeasurements
  /\ NoCall /\ NoQuantityCall /\ NoResolveCall /\ NoPreviousCall /\ NoEstimateCall

\* standardizeIngredientName(ingredientName) up to its return or to the
\* call of generateText
CallStandardizeIngredientName ==
  /\ rPc = "idle"
  /\ \E ingredientName \in RawNames :
       /\ rName' = ingredientName
       /\ rPc' = IF standardizeSync(ingredientName).ai /\ ~aiSkipped(ingredientName)
                   THEN "ai" ELSE "done"
       /\ rResult' = standardizeSync(ingredientName).name
  /\ rReply' = <<>>
  /\ UNCHANGED <<tables, callVars, qtyVars>>

\* generateText settles; getAiAssistedMatch validates the reply and
\* standardizeIngredientName returns
AiReply ==
  /\ rPc = "ai"
  /\ \E reply \in AiReplies :
       /\ rReply' = reply
       /\ rResult' = aiMatch(reply)
  /\ rPc' = "done"
  /\ UNCHANGED <<tables, callVars, qtyVars, rName>>

NextResolve == CallStandardizeIngredientName \/ AiReply

SpecResolve == InitResolve /\ [][NextResolve]_vars

(***************************************************************************)
(* Properties of standardizeToGrams                                        *)
(***************************************************************************)
\* C4: for every quantity phrase and every canonical name
\* standardizeToGrams returns a finite number >= 0.
C4_GramsFiniteNonNegative ==
  (qGrams # <<>> /\ qName # <<>>) => NonNegative(qGrams[1])

\* "-3 cup" gives NaN and "1/0 cup" gives Infinity
C4_NotANumberOrInfinite ==
  /\ qName = <<"tomato">>
  /\ \/ qPhrase = <<<<"-3 cup">>>> /\ qGrams = <<NaN>>
     \/ qPhrase = <<<<"1/0 cup">>>> /\ qGrams = <<PosInf>>

\* C10: for every phrase "<n> g", n written as digits or as digits, a
\* point and digits, parseQuantity returns {value: n, unit: "g"} and
\* convertToGrams returns n, whatever the ingredient name and the
\* household measurements are.
C10_GramsPassThrough ==
  \A ticks \in 0..MaxGramTicks, decimals \in 0..MaxDecimals :
    qPhrase = <<<<Numeral(ticks, decimals) \o " g">>>> =>
      /\ qParsed = <<[value |-> Fin(ticks, Pow10(decimals)), unit |-> <<"g">>]>>
      /\ qGrams = <<Fin(ticks, Pow10(decimals))>>

\* "1.5 g" of onion, whose other units the measurements convert: 1.5
C10_OneAndAHalfGrams ==
  /\ qPhrase = <<<<"1.5 g">>>>
  /\ qName = <<"onion">>
  /\ householdMeasurements = fullMeasurements
  /\ qParsed = <<[value |-> Fin(3, 2), unit |-> <<"g">>]>>
  /\ qGrams = <<Fin(3, 2)>>

(***************************************************************************)
(* Properties of standardizeIngredientName                                 *)
(***************************************************************************)
\* C7: standardizeIngredientName(c) = c for every name c of the nutrition
\* database.
C7_IdentityOnCanonicalNames ==
  (rPc = "done" /\ ListHas(dbIngredientNames, rName)) => rResult = <<rName>>

\* the name "onion powder" of the database resolves to the row "onion"
C7_OnionPowderBecomesOnion ==
  /\ rPc = "done"
  /\ rName = "onion powder"
  /\ ListHas(dbIngredientNames, "onion powder")
  /\ rResult = <<"onion">>

\* C8 as stated: every non-null result is a name of the nutrition
\* database, and a reply of generateText that is not a name of the
\* database, or is "None", gives null.
C8_ReplyNotInTableGivesNull ==
  rPc = "done" =>
    /\ rResult # <<>> => ListHas(dbIngredientNames, rResult[1])
    /\ (rReply # <<>> /\ (~ListHas(dbIngredientNames, rReply[1]) \/ rReply[1] = "None"))
         => rResult = <<>>

\* C8, amended: every non-null result is a name of the nutrition database;
\* the reply of generateText is compared without its surrounding white
\* space: a reply whose trimmed text is not a name of the database, or is
\* "None", gives null.
C8_ResultInTable ==
  rPc = "done" =>
    /\ rResult # <<>> => ListHas(dbIngredientNames, rResult[1])
    /\ (rReply # <<>>
          /\ (~ListHas(dbIngredientNames, Trim(rReply[1])) \/ Trim(rReply[1]) = "None"))
         => rResult = <<>>

\* a reply that names no row was discarded, and "None" was discarded
\* although the database has a row of that name
C8_ReplyDiscarded ==
  /\ rPc = "done"
  /\ rResult = <<>>
  /\ \/ rReply = <<"olive_oil">>
     \/ rReply = <<"None">> /\ ListHas(dbIngredientNames, "None")

(***************************************************************************)
(* Scenarios of standardizeToGrams                                         *)
(***************************************************************************)
\* C11: "1/2 cup" falls through the grams, pounds, ml and range rules and
\* is parsed by the fraction rule as {value: 0.5, unit: "cup"}; where the
\* factor of a cup is the default of 150 g (no entry for cup in the
\* household measurements, defaultConversions applies) standardizeToGrams
\* returns 75, whatever the ingredient.
C11_HalfCup ==
  qPhrase = <<<<"1/2 cup">>>> =>
    /\ GramsRule("1/2 cup") = <<>> /\ PoundsRule("1/2 cup") = <<>>
    /\ MlRule("1/2 cup") = <<>> /\ RangeRule("1/2 cup") = <<>>
    /\ FractionRule("1/2 cup") = qParsed
    /\ qParsed = <<[value |-> Fin(1, 2), unit |-> <<"cup">>]>>
    /\ householdMeasurements = sparseMeasurements => qGrams = <<Num(75)>>

\* half a cup of onion with no cup entry in the measurements: 75 g
C11_HalfCupOfOnion ==
  /\ qPhrase = <<<<"1/2 cup">>>>
  /\ qName = <<"onion">>
  /\ householdMeasurements = sparseMeasurements
  /\ qGrams = <<Num(75)>>

\* the phrase says "to taste", "as needed" or "as required", in any case
Qualitative(s) ==
  \/ Includes(ToLowerCase(s), "to taste")
  \/ Includes(ToLowerCase(s), "as needed")
  \/ Includes(ToLowerCase(s), "as required")

\* none of the rules before the qualitative one returns for the phrase
NoEarlierRule(s) ==
  /\ GramsRule(s) = <<>> /\ PoundsRule(s) = <<>> /\ MlRule(s) = <<>>
  /\ RangeRule(s) = <<>> /\ FractionRule(s) = <<>> /\ GeneralRule(s) = <<>>

\* the factor of a teaspoon is the default of 5 g: the household
\* measurements have no teaspoon entry, for the unit or for a category
TeaspoonIsDefault ==
  /\ "teaspoon" \notin DOMAIN householdMeasurements.measurements
  /\ \A category \in DOMAIN householdMeasurements.ingredientCategories :
       "teaspoon" \notin DOMAIN householdMeasurements.ingredientCategories[category]

\* C12: a phrase that says "to taste", "as needed" or "as required" and
\* that no earlier rule parses is parsed as {value: 0.5, unit: "teaspoon"},
\* and with a teaspoon factor of 5 g standardizeToGrams returns 2.5.
C12_QualitativePhrase ==
  (qPhrase # <<>> /\ qPhrase[1] # <<>>
     /\ Qualitative(qPhrase[1][1]) /\ NoEarlierRule(qPhrase[1][1])) =>
    /\ qParsed = <<[value |-> Fin(1, 2), unit |-> <<"teaspoon">>]>>
    /\ TeaspoonIsDefault => qGrams = <<Fin(5, 2)>>

\* "Salt To Taste" for tomato: half a teaspoon, 2.5 g
C12_SaltToTaste ==
  /\ qPhrase = <<<<"Salt To Taste">>>>
  /\ qName = <<"tomato">>
  /\ TeaspoonIsDefault
  /\ qParsed = <<[value |-> Fin(1, 2), unit |-> <<"teaspoon">>]>>
  /\ qGrams = <<Fin(5, 2)>>

\* a phrase that says "to taste" and is parsed by the general rule
C12_EarlierRuleWins ==
  /\ qPhrase = <<<<"2 tablespoon to taste">>>>
  /\ qParsed = <<[value |-> Num(2), unit |-> <<"tablespoon">>]>>

(***************************************************************************)
(* A nutrition database that was not loaded                                *)
(***************************************************************************)
\* C13: while the nutrition database is not loaded (loadNutritionDBSync
\* found no file and left nutritionDB empty) no call of calculateNutrition
\* produces a result: none returns totals and records.
C13_NoResultWithoutDatabase ==
  nutritionDB = EmptyDB => ~Returned

\* with no database loaded the call returned a record and zero totals
C13_ServedWithoutDatabase ==
  /\ nutritionDB = EmptyDB
  /\ status = "returned"
  /\ Len(processedIngredients) = 1
  /\ processedIngredients[1].ingredient = <<"onions">>
  /\ processedIngredients[1].nutrition = <<>>
  /\ totalNutrition = ZeroNutrition
  /\ totalWeightInGrams = Zero

(***************************************************************************)
(* calculateNutrition called twice on one service                          *)
(***************************************************************************)
\* a service with the matcher configured and the full measurement table
InitCalls == Init /\ aiModel /\ householdMeasurements = fullMeasurements

\* the caller has the result of the first call; the locals of the call
\* (lines 34-43) are gone, the service's fields stay as the call left them
ResultTaken ==
  /\ status = "returned"
  /\ previous = <<>>
  /\ previous' = <<[tables |-> tables,
                    ingredients |-> ingredients,
                    standardName |-> standardName,
                    processedIngredients |-> processedIngredients,
                    totalNutrition |-> totalNutrition,
                    totalWeightInGrams |-> totalWeightInGrams]>>
  /\ ingredients' = <<>>
  /\ pc' = <<>>
  /\ standardName' = <<>>
  /\ processedIngredients' = <<>>
  /\ totalNutrition' = ZeroNutrition
  /\ totalWeightInGrams' = Zero
  /\ status' = "idle"
  /\ UNCHANGED <<tables, microQ, dishType, perServing, qtyVars, resolveVars, estimateVars>>

\* the first call of calculateNutrition on the service
CallCalculateNutritionFirst == previous = <<>> /\ CallCalculateNutrition

\* calculateNutrition is called again with the ingredients of the first call
CallCalculateNutritionAgain ==
  /\ previous # <<>>
  /\ calculateNutritionOf(previous[1].ingredients)

NextCalls ==
  \/ CallCalculateNutritionFirst
  \/ RunMicrotask
  \/ AiSettle
  \/ ReturnCalculateNutrition
  \/ ResultTaken
  \/ CallCalculateNutritionAgain

SpecCalls == InitCalls /\ [][NextCalls]_vars

\* what the caller sees of the records: idx is kept by the model only
Visible(list) ==
  [k \in 1..Len(list) |->
     [ingredient |-> list[k].ingredient, mappedName |-> list[k].mappedName,
      quantity |-> list[k].quantity, weight_g |-> list[k].weight_g,
      nutrition |-> list[k].nutrition, error |-> list[k].error]]

\* the second call has returned, and every standardizeIngredientName of it
\* returned what it returned in the first call (the matcher, asked about the
\* same names, gave the same answers)
SameCallReturned ==
  /\ previous # <<>>
  /\ status = "returned"
  /\ ingredients = previous[1].ingredients
  /\ standardName = previous[1].standardName

\* C14: calls write none of the tables, and a second call of
\* calculateNutrition with the ingredients and the matcher answers of the
\* first returns the result of the first
C14_SameInputsSameResult ==
  /\ previous # <<>> => tables = previous[1].tables
  /\ SameCallReturned =>
       /\ Visible(processedIngredients) = Visible(previous[1].processedIngredients)
       /\ totalNutrition = previous[1].totalNutrition
       /\ totalWeightInGrams = previous[1].totalWeightInGrams

\* "xyz" and "onions" both wait for the matcher (no synonym resolves
\* "onions"); the answers arrived in one order in the first call and in the
\* other order in the second, and so did the records
C14_RecordsInOrderOfArrival ==
  /\ SameCallReturned
  /\ tables = previous[1].tables
  /\ Len(processedIngredients) = 2
  /\ ingredients[1][1].name = <<"xyz">> /\ ingredients[2][1].name = <<"onions">>
  /\ standardName = <<<<>>, <<"onion">>>>
  /\ previous[1].processedIngredients[1].ingredient = <<"xyz">>
  /\ processedIngredients[1].ingredient = <<"onions">>
  /\ totalNutrition = previous[1].totalNutrition
  /\ totalWeightInGrams = previous[1].totalWeightInGrams

(***************************************************************************)
(* NutritionEstimator.estimateNutrition                                    *)
(***************************************************************************)
\* the methods of class QuantityStandardizer
QuantityStandardizerMethods ==
  {"constructor", "parseQuantity", "convertToGrams", "standardizeToGrams"}

\* error.message when object.method(...) is evaluated and the class has no
\* such method, nullable
NotAFunction(object, methods, method) ==
  IF method \in methods THEN <<>> ELSE <<object \o "." \o method \o " is not a function">>

\* DishClassifier.typeKeywords, in the order of Object.entries
typeKeywords ==
  <<[type |-> "main_course",
     keywords |-> {"curry", "rice", "biryani", "pulao", "roti", "naan", "paratha",
                   "dal", "sabzi", "korma", "masala"}],
    [type |-> "side_dish", keywords |-> {"raita", "chutney", "pickle", "papad", "salad"}],
    [type |-> "dessert",
     keywords |-> {"kheer", "gulab jamun", "rasgulla", "jalebi", "ladoo", "barfi", "halwa"}],
    [type |-> "beverage", keywords |-> {"lassi", "chai", "buttermilk", "sharbat", "thandai"}],
    [type |-> "snack", keywords |-> {"samosa", "pakora", "vada", "bhel", "chaat", "kachori"}],
    [type |-> "appetizer", keywords |-> {"soup", "shorba", "tikka", "kebab"}]>>

\* DishClassifier.isValidDishName
isValidDishName(dishName) ==
  With(Trim(dishName), LAMBDA trimmedName :
    /\ Len(trimmedName) >= 3
    /\ \E i \in 1..Len(trimmedName) : IsAlpha(CharAt(trimmedName, i))
    /\ \A i \in 1..Len(trimmedName) :
         \/ IsAlpha(CharAt(trimmedName, i))
         \/ CharAt(trimmedName, i) \in {" ", "-", ".", ",", "'", "(", ")"})

\* DishClassifier.classifyDish
classifyDish(dishName) ==
  IF ~isValidDishName(dishName) THEN "main_course"
  ELSE With(Trim(ToLowerCase(dishName)), LAMBDA normalizedName :
         With({k \in 1..Len(typeKeywords) :
                 \E keyword \in typeKeywords[k].keywords : Includes(normalizedName, keyword)},
              LAMBDA hits :
           IF hits = {} THEN "main_course" ELSE typeKeywords[Min(hits)].type))

\* dish names given to estimateNutrition
DishNames == {"ab", "dal tadka"}

\* what validateDishNameWithLLM resolves with: its own objects, and the
\* fields of the parsed reply of the model, where message is undefined
\* when the reply has no such key
Validations ==
  {[isValid |-> FALSE, message |-> <<"This may not be a valid Indian dish name">>, suggestedName |-> <<>>],
   [isValid |-> FALSE, message |-> <<>>, suggestedName |-> <<>>],
   [isValid |-> TRUE, message |-> <<"Dish name is valid">>, suggestedName |-> <<>>],
   [isValid |-> TRUE, message |-> <<"Dish name is valid">>, suggestedName |-> <<"Dal Tadka">>]}

\* what fetchRecipe resolves with: null, or a recipe
Recipes ==
  {<<>>} \cup {<<[name |-> n, ingredients |-> list]>> :
                 n \in {<<>>, <<"Dal Tadka">>, <<"Mango Lassi">>}, list \in IngredientLists}

\* a service with the prepared database, the matcher configured and the
\* full measurement table
InitEstimate ==
  /\ Init /\ nutritionDB = PreparedDB /\ aiModel
  /\ householdMeasurements = fullMeasurements

\* the error outcome of estimateNutrition
ErrorResult(message) == <<[error |-> TRUE, message |-> <<message>>]>>

\* estimateNutrition(dishName): lines 42-54, up to the await of
\* validateDishNameWithLLM
CallEstimateNutrition ==
  /\ ePc = "idle"
  /\ \E dishName \in DishNames :
       /\ eDish' = <<dishName>>
       /\ IF Len(Trim(dishName)) < 3
            THEN /\ ePc' = "done"
                 /\ eResult' = ErrorResult("Invalid dish name")
            ELSE /\ ePc' = "validating"
                 /\ eResult' = eResult
  /\ UNCHANGED <<tables, calcVars, qtyVars, resolveVars, previous, eRecipe>>

\* validateDishNameWithLLM has resolved: lines 54-67, up to the await of
\* fetchRecipe
ValidationResolves ==
  /\ ePc = "validating"
  /\ \E validation \in Validations :
       IF ~validation.isValid
         THEN /\ ePc' = "done"
              /\ eResult' = <<[error |-> TRUE, message |-> validation.message]>>
              /\ eDish' = eDish
         ELSE /\ ePc' = "fetching"
              /\ eResult' = eResult
              /\ eDish' = OrElse(validation.suggestedName, eDish)
  /\ UNCHANGED <<tables, calcVars, qtyVars, resolveVars, previous, eRecipe>>

\* fetchRecipe has resolved: lines 67-90, up to the await of
\* calculateNutrition
RecipeResolves ==
  /\ ePc = "fetching"
  /\ \E recipe \in Recipes :
       /\ eRecipe' = recipe
       /\ IF recipe = <<>>
            THEN /\ ePc' = "done"
                 /\ eResult' = ErrorResult("Could not find a recipe")
                 /\ UNCHANGED calcVars
            ELSE IF recipe[1].name = <<>> \/ Len(recipe[1].ingredients) = 0
            THEN /\ ePc' = "done"
                 /\ eResult' = ErrorResult("Invalid recipe data")
                 /\ UNCHANGED calcVars
            ELSE /\ ePc' = "calculating"
                 /\ eResult' = eResult
                 /\ calculateNutritionStarts(recipe[1].ingredients)
  /\ UNCHANGED <<tables, qtyVars, resolveVars, previous, eDish>>

\* the value of the return expression of lines 114-130, or the outcome of
\* the catch when evaluating it throws
estimateResult(recipe, type, serving, processed) ==
  With(NotAFunction("this.quantityStandardizer", QuantityStandardizerMethods, "getHouseholdMeasure"),
       LAMBDA thrown :
    IF thrown # <<>>
      THEN ErrorResult("Error estimating nutrition: " \o thrown[1])
      ELSE <<[error |-> FALSE,
              dish_name |-> recipe.name,
              dish_type |-> type,
              serving_size |-> [grams |-> serving.serving_size_g],
              estimated_nutrition_per_serving |->
                [calories |-> serving.calories, protein |-> serving.protein,
                 carbs |-> serving.carbs, fat |-> serving.fat, fiber |-> serving.fiber],
              ingredients_used |-> Visible(processed)]>>)

\* calculateNutrition has resolved: lines 92-130
NutritionResolves ==
  /\ ePc = "calculating"
  /\ status = "returned"
  /\ dishType' = classifyDish(eRecipe[1].name[1])
  /\ perServing' = <<calculatePerServing(totalNutrition, totalWeightInGrams, dishType')>>
  /\ status' = "served"
  /\ ePc' = "done"
  /\ eResult' = estimateResult(eRecipe[1], dishType', perServing'[1], processedIngredients)
  /\ UNCHANGED <<tables, ingredients, pc, standardName, microQ, processedIngredients,
                 totalNutrition, totalWeightInGrams, qtyVars, resolveVars, previous,
                 eDish, eRecipe>>

\* calculateNutrition has rejected: the catch of lines 131-136
NutritionRejects ==
  /\ ePc = "calculating"
  /\ status = "rejected"
  /\ ePc' = "done"
  /\ eResult' = ErrorResult("Error estimating nutrition: Cannot read properties of null (reading 'name')")
  /\ UNCHANGED <<tables, calcVars, qtyVars, resolveVars, previous, eDish, eRecipe>>

NextEstimate ==
  \/ CallEstimateNutrition
  \/ ValidationResolves
  \/ RecipeResolves
  \/ RunMicrotask
  \/ AiSettle
  \/ ReturnCalculateNutrition
  \/ NutritionResolves
  \/ NutritionRejects

SpecEstimate == InitEstimate /\ [][NextEstimate]_vars

\* estimateNutrition has returned after the validation passed and the
\* recipe had a name and an ingredient
EstimatedValidRecipe ==
  /\ eResult # <<>>
  /\ eRecipe # <<>>
  /\ eRecipe[1].name # <<>>
  /\ Len(eRecipe[1].ingredients) >= 1

\* C15: when the validation passes and the recipe has a name and at least
\* one ingredient, estimateNutrition returns error = false with the dish
\* type, the serving size, the per-serving nutrition and the ingredients
C15_ValidRecipeGivesResult ==
  EstimatedValidRecipe =>
    /\ eResult[1].error = FALSE
    /\ eResult[1].dish_type = dishType
    /\ eResult[1].serving_size.grams = perServing[1].serving_size_g
    /\ eResult[1].estimated_nutrition_per_serving.calories = perServing[1].calories
    /\ eResult[1].ingredients_used = Visible(processedIngredients)

\* the nutrition of ghee was calculated and served, and estimateNutrition
\* returned the error outcome of its catch
C15_ErrorAfterNutritionCalculated ==
  /\ EstimatedValidRecipe
  /\ eRecipe[1].name = <<"Dal Tadka">>
  /\ Len(ingredients) = 1 /\ ingredients[1] # <<>> /\ ingredients[1][1].name = <<"Ghee">>
  /\ status = "served"
  /\ perServing # <<>>
  /\ eResult = ErrorResult("Error estimating nutrition: this.quantityStandardizer.getHouseholdMeasure is not a function")

(***************************************************************************)
(* The tiers of standardizeIngredientName                                  *)
(***************************************************************************)
\* the normalized name of the call, spaced and underscored
rNormalized == Trim(preprocessIngredientName(rName))
rUnderscored == ReplaceSpaces(rNormalized, "_")

\* the table has a row of that name
InTable(name) == \E i \in 1..Len(nutritionDB) : nutritionDB[i].ingredient = name

\* the tiers that have a hit for the call
UnderscoredHit == InTable(rUnderscored)
SpacedHit == InTable(rNormalized)
SynonymHit ==
  /\ rNormalized \in DOMAIN ingredientSynonyms
  /\ InTable(ingredientSynonyms[rNormalized])
Candidates ==
  {nutritionDB[i].ingredient : i \in {j \in 1..Len(nutritionDB) :
     Includes(nutritionDB[j].ingredient, rNormalized)
       \/ Includes(nutritionDB[j].ingredient, rUnderscored)}}

\* standardizeIngredientName was called with a name that is not empty after
\* normalization
ResolveCalled == rPc # "idle" /\ rName # "" /\ rNormalized # ""

\* C16: the tiers are tried in order and the first hit is the answer:
\* underscored form, spaced form, synonym with its target in the table,
\* rows containing the name; the matcher is asked only after all of them
C16_FirstHitWins ==
  ResolveCalled =>
    /\ UnderscoredHit => rPc = "done" /\ rResult = <<rUnderscored>>
    /\ (~UnderscoredHit /\ SpacedHit) => rPc = "done" /\ rResult = <<rNormalized>>
    /\ (~UnderscoredHit /\ ~SpacedHit /\ SynonymHit) =>
         rPc = "done" /\ rResult = <<ingredientSynonyms[rNormalized]>>
    /\ (~UnderscoredHit /\ ~SpacedHit /\ ~SynonymHit /\ Candidates # {}) =>
         rPc = "done" /\ rResult # <<>> /\ rResult[1] \in Candidates
    /\ (rPc = "ai" \/ rReply # <<>>) =>
         ~UnderscoredHit /\ ~SpacedHit /\ ~SynonymHit /\ Candidates = {}

\* "peas" has the synonym "green_peas" and the row "green peas" contains
\* it: the synonym is the answer
C16_SynonymBeforeCandidates ==
  /\ rName = "peas" /\ rPc = "done"
  /\ nutritionDB = HandWrittenDB /\ ingredientSynonyms = regionalSynonyms
  /\ ~UnderscoredHit /\ ~SpacedHit /\ SynonymHit
  /\ "green peas" \in Candidates
  /\ rResult = <<"green_peas">>

\* "powder" has a synonym whose target is in no row: the lookup goes on to
\* the rows containing "powder"
C16_DeadSynonymSkipped ==
  /\ rName = "powder" /\ rPc = "done"
  /\ nutritionDB = HandWrittenDB /\ ingredientSynonyms = regionalSynonyms
  /\ rNormalized \in DOMAIN ingredientSynonyms /\ ~SynonymHit
  /\ rResult = <<"onion powder">>

\* "green peas" is the name of a row, and so is its underscored form: the
\* underscored form is the answer
C16_UnderscoredBeforeSpaced ==
  /\ rName = "green peas" /\ rPc = "done"
  /\ UnderscoredHit /\ SpacedHit
  /\ rResult = <<"green_peas">>

(***************************************************************************)
(* The rows considered when no name and no synonym matches                 *)
(***************************************************************************)
\* the names of the rows of a list
NamesOf(list) == {list[i].ingredient : i \in 1..Len(list)}

\* the names of the rows whose name is contained in the normalized name
Contained ==
  {nutritionDB[i].ingredient : i \in {j \in 1..Len(nutritionDB) :
     Includes(rNormalized, nutritionDB[j].ingredient)
       \/ Includes(rUnderscored, nutritionDB[j].ingredient)}}

\* the call went past the name and synonym lookups
PastSynonyms == ResolveCalled /\ ~UnderscoredHit /\ ~SpacedHit /\ ~SynonymHit

\* C17: the rows considered are those whose name contains the normalized
\* name, spaced or underscored, and those whose name is contained in it
C17_CandidatesBothDirections ==
  PastSynonyms => NamesOf(findAllInNutritionDB(rNormalized)) = Candidates \cup Contained

\* "onions" without a synonym: the row "onion" is contained in the name and
\* is not considered; the matcher is asked
C17_OnionNotConsidered ==
  /\ PastSynonyms
  /\ rName = "onions" /\ nutritionDB = PreparedDB
  /\ "onion" \in Contained
  /\ findAllInNutritionDB(rNormalized) = <<>>
  /\ rPc = "ai"

\* the normalized name without its plural "s"
rSingular == StripSuffix(rNormalized, "s")

\* C18: past the name and synonym lookups, a row named as the normalized
\* name without its plural "s" is the answer, before the shortest name
C18_PluralStrippedPreferred ==
  (PastSynonyms /\ InTable(rSingular)) => rPc = "done" /\ rResult = <<rSingular>>

\* "onions" without a synonym, on a table with the rows "onion" and
\* "spring onions": the answer is "spring onions"
C18_ShortestInsteadOfSingular ==
  /\ PastSynonyms /\ rPc = "done"
  /\ rName = "onions" /\ nutritionDB = HandWrittenDB
  /\ rSingular = "onion" /\ InTable(rSingular)
  /\ rResult = <<"spring onions">>

\* the rows whose name contains the normalized name, by position
CandidateRows ==
  {j \in 1..Len(nutritionDB) :
     Includes(nutritionDB[j].ingredient, rNormalized)
       \/ Includes(nutritionDB[j].ingredient, rUnderscored)}

\* no row is named as the normalized name without its plural "s"
NoSingularRow == ~InTable(rSingular) /\ ~InTable(StripSuffix(rUnderscored, "_s"))

\* C19: past the name and synonym lookups, with rows containing the name
\* and none named as its singular, the answer is the shortest of these
\* rows' names, and among the shortest the first in table order
C19_ShortestThenTableOrder ==
  (PastSynonyms /\ CandidateRows # {} /\ NoSingularRow) =>
    /\ rPc = "done"
    /\ \E i \in CandidateRows :
         /\ rResult = <<nutritionDB[i].ingredient>>
         /\ \A j \in CandidateRows :
              \/ Len(nutritionDB[i].ingredient) < Len(nutritionDB[j].ingredient)
              \/ Len(nutritionDB[i].ingredient) = Len(nutritionDB[j].ingredient) /\ i <= j

\* "peas" without a synonym: "green peas" and "green_peas" are equally
\* short, and "green peas" comes first in the table
C19_FirstOfTwoShortest ==
  /\ PastSynonyms /\ rPc = "done" /\ NoSingularRow
  /\ rName = "peas" /\ nutritionDB = HandWrittenDB
  /\ CandidateRows = {4, 5}
  /\ Len(nutritionDB[4].ingredient) = Len(nutritionDB[5].ingredient)
  /\ rResult = <<"green peas">>

(***************************************************************************)
(* The resolution order of convertToGrams                                  *)
(***************************************************************************)
\* what convertToGrams was called with
qValue == qParsed[1].value
qUnit == UnitKey(qParsed[1].unit)
qIngredient == IF qName = <<>> THEN "" ELSE Trim(ToLowerCase(qName[1]))

\* the entry of a unit object for the ingredient, else its default, nullable
SpecificOrDefault(ud) ==
  IF ~ud.obj THEN <<>>
  ELSE IF qIngredient \in DOMAIN ud.map THEN <<ud.map[qIngredient]>>
  ELSE IF "default" \in DOMAIN ud.map THEN <<ud.map["default"]>>
  ELSE <<>>

\* step 2: grams of a piece when the piece table settles it, nullable
PieceStep ==
  IF qUnit = "piece" /\ "piece" \in DOMAIN householdMeasurements.measurements
    THEN SpecificOrDefault(householdMeasurements.measurements["piece"])
    ELSE <<>>

\* step 3: grams of a medium item
MediumStep ==
  IF /\ "medium" \in DOMAIN householdMeasurements.measurements
     /\ householdMeasurements.measurements["medium"].obj
     /\ qIngredient \in DOMAIN householdMeasurements.measurements["medium"].map
    THEN householdMeasurements.measurements["medium"].map[qIngredient]
    ELSE Num(120)

\* step 4: the factor of the ingredient's category for the unit, nullable
CategoryStep ==
  IF /\ qIngredient \in DOMAIN householdMeasurements.ingredients
     /\ householdMeasurements.ingredients[qIngredient]
          \in DOMAIN householdMeasurements.ingredientCategories
     /\ qUnit \in DOMAIN householdMeasurements.ingredientCategories[
                           householdMeasurements.ingredients[qIngredient]]
    THEN <<householdMeasurements.ingredientCategories[
             householdMeasurements.ingredients[qIngredient]][qUnit]>>
    ELSE <<>>

\* step 5: the entry of the unit in the global table, nullable
GlobalStep ==
  IF qUnit \notin DOMAIN householdMeasurements.measurements THEN <<>>
  ELSE IF ~householdMeasurements.measurements[qUnit].obj
    THEN <<householdMeasurements.measurements[qUnit].num>>
  ELSE IF SpecificOrDefault(householdMeasurements.measurements[qUnit]) # <<>>
    THEN SpecificOrDefault(householdMeasurements.measurements[qUnit])
  ELSE <<Num(10)>>

\* step 6: the fixed table, 10 for a unit it does not have
FixedStep == IF qUnit \in DOMAIN defaultConversions THEN defaultConversions[qUnit] ELSE Num(10)

\* the grams per unit by the order of the steps
GramsPerUnit ==
  IF PieceStep # <<>> THEN PieceStep[1]
  ELSE IF qUnit = "medium" THEN MediumStep
  ELSE IF CategoryStep # <<>> THEN CategoryStep[1]
  ELSE IF GlobalStep # <<>> THEN GlobalStep[1]
  ELSE FixedStep

\* C20: convertToGrams returns the value for g and ml, and otherwise the
\* value times the grams per unit found by the steps in their order: piece
\* table, medium table or 120, category, global table, fixed table or 10
C20_ResolutionOrder ==
  qGrams # <<>> =>
    qGrams[1] = IF qUnit \in {"g", "ml"} THEN qValue ELSE JsMul(qValue, GramsPerUnit)

\* "2 constructor": no table has the unit "constructor", and the weight is
\* not 20 but NaN
C20_InheritedUnit ==
  /\ qPhrase = <<<<"2 constructor">>>>
  /\ qValue = Num(2) /\ qUnit = "constructor"
  /\ householdMeasurements = sparseMeasurements
  /\ GramsPerUnit = Num(10)
  /\ qGrams = <<NaN>>

\* "1 katori" of onion, whose katori entry is 0: the weight is not 0 but 10
C20_ZeroEntrySkipped ==
  /\ qPhrase = <<<<"1 katori">>>> /\ qName = <<"onion">>
  /\ householdMeasurements = fullMeasurements
  /\ GramsPerUnit = Zero
  /\ qGrams = <<Num(10)>>

\* the steps agree with convertToGrams on a table without zero entries and
\* a unit no object inherits
C20_OrderOnOrdinaryInput ==
  (qGrams # <<>> /\ qUnit \notin InheritedKeys
     /\ ~(qUnit = "katori" /\ qIngredient = "onion")) =>
    qGrams[1] = IF qUnit \in {"g", "ml"} THEN qValue ELSE JsMul(qValue, GramsPerUnit)

(***************************************************************************)
(* Specific entries and general ones                                       *)
(***************************************************************************)
\* the entry of the global table for the unit and the ingredient, nullable
SpecificEntry ==
  IF /\ qUnit \in DOMAIN householdMeasurements.measurements
     /\ householdMeasurements.measurements[qUnit].obj
     /\ qIngredient \in DOMAIN householdMeasurements.measurements[qUnit].map
    THEN <<householdMeasurements.measurements[qUnit].map[qIngredient]>>
    ELSE <<>>

\* C21: when the table has an entry for the unit and the ingredient,
\* convertToGrams uses it, before the factor of the ingredient's category
\* and before the unit's default
C21_SpecificEntryPreferred ==
  (qGrams # <<>> /\ qUnit \notin {"g", "ml"} /\ SpecificEntry # <<>>) =>
    qGrams[1] = JsMul(qValue, SpecificEntry[1])

\* "1 cup" of onion: the table has 150 for a cup of onion and 160 for a
\* cup of a vegetable, and the weight is 160
C21_CategoryBeforeSpecific ==
  /\ qPhrase = <<<<"1 cup">>>> /\ qName = <<"onion">>
  /\ householdMeasurements = fullMeasurements
  /\ SpecificEntry = <<Num(150)>>
  /\ CategoryStep = <<Num(160)>>
  /\ qGrams = <<Num(160)>>

\* "1 cup" of ghee, which has no category: the entry for a cup of ghee is
\* used before the default of a cup
C21_SpecificBeforeDefault ==
  /\ qPhrase = <<<<"1 cup">>>> /\ qName = <<"ghee">>
  /\ householdMeasurements = fullMeasurements
  /\ CategoryStep = <<>>
  /\ qGrams = <<Num(220)>>

(***************************************************************************)
(* Ranges                                                                  *)
(***************************************************************************)
\* the phrase reaches the range rule: no earlier rule returns for it
ReachesRangeRule(s) == GramsRule(s) = <<>> /\ PoundsRule(s) = <<>> /\ MlRule(s) = <<>>

\* C22: a phrase "a-b X" that reaches the range rule is parsed to the mean
\* of a and b, with the unit X
C22_RangeMean ==
  \A case \in RangeCases :
    (qPhrase = <<<<case.phrase>>>> /\ ReachesRangeRule(case.phrase)) =>
      qParsed = <<[value |-> case.mean, unit |-> <<case.unit>>]>>

\* "0.3 - 2 Cloves" is 1.15 cloves
C22_DecimalAndInteger ==
  /\ qPhrase = <<<<"0.3 - 2 Cloves">>>>
  /\ ReachesRangeRule("0.3 - 2 Cloves")
  /\ qParsed = <<[value |-> Fin(23, 20), unit |-> <<"cloves">>]>>

\* "2-3 green chilies" does not reach the range rule
C22_RangeOfGreenChilies ==
  /\ qPhrase = <<<<"2-3 green chilies">>>>
  /\ ~ReachesRangeRule("2-3 green chilies")

(***************************************************************************)
(* calculateNutrition on quantities that no rule parses                    *)
(***************************************************************************)
\* entries whose quantity no rule parses, and one that is parsed
UnparsedEntries ==
  { Entry(<<"onion">>, <<>>, <<"some">>),
    Entry(<<"Ghee">>, <<"a pinch">>, <<>>),
    Entry(<<"corrupt_item">>, <<"3">>, <<>>),
    Entry(<<"xyz">>, <<"some">>, <<>>),
    Entry(<<"onions">>, <<>>, <<"1 cup">>) }

CallCalculateNutritionUnparsed ==
  \E list \in ListsUpTo(UnparsedEntries, MaxIngredients) : calculateNutritionOf(list)

NextUnparsed ==
  \/ CallCalculateNutritionUnparsed
  \/ RunMicrotask
  \/ AiSettle
  \/ ReturnCalculateNutrition

SpecUnparsed == Init /\ [][NextUnparsed]_vars

\* no rule of parseQuantity returns for the phrase
NoRule(s) == NoEarlierRule(s) /\ QualitativeRule(s) = <<>>

\* the list without its k-th element
WithoutAt(list, k) == SubSeq(list, 1, k - 1) \o SubSeq(list, k + 1, Len(list))

\* the k-th returned record is of a resolved ingredient whose quantity no
\* rule parses
UnparsedResolved(k) ==
  /\ processedIngredients[k].mappedName # <<>>
  /\ processedIngredients[k].quantity # <<>>
  /\ NoRule(processedIngredients[k].quantity[1])

\* C23: a phrase that no rule parses is {value: 0, unit: null}; the record
\* of a resolved ingredient with such a phrase has weight 0, five nutrients
\* of 0 and no error, and the totals are those of the other records
C23_UnparsedContributesZero ==
  Returned =>
    \A k \in 1..Len(processedIngredients) :
      UnparsedResolved(k) =>
        /\ parseQuantity(processedIngredients[k].quantity) = [value |-> Zero, unit |-> <<>>]
        /\ processedIngredients[k].weight_g = Zero
        /\ processedIngredients[k].nutrition = <<ZeroNutrition>>
        /\ processedIngredients[k].error = <<>>
        /\ totalWeightInGrams = aggregate(WithoutAt(processedIngredients, k)).weight
        /\ totalNutrition = aggregate(WithoutAt(processedIngredients, k)).nutrition

\* a pinch of ghee and a cup of onions: the ghee has a record of weight 0,
\* and the totals are those of the onions
C23_PinchOfGhee ==
  /\ Returned
  /\ Len(processedIngredients) = 2
  /\ UnparsedResolved(1)
  /\ processedIngredients[1].mappedName = <<"ghee">>
  /\ processedIngredients[1].quantity = <<"a pinch">>
  /\ processedIngredients[2].mappedName = <<"onion">>
  /\ totalWeightInGrams = processedIngredients[2].weight_g
  /\ JsGt(totalWeightInGrams, Zero)

(***************************************************************************)
(* calculatePerServing as a function of its arguments                      *)
(***************************************************************************)
MaxWeightTicks == 25

\* total weights: tenths of a gram from 0, and a dish of 300 g
WeightArgs == {Fin(t, 10) : t \in 0..MaxWeightTicks} \cup {Num(300)}

\* total nutrition
NutritionArgs ==
  {ZeroNutrition,
   [calories |-> Num(90), protein |-> Num(3), carbs |-> Num(20), fat |-> Fin(1, 2),
    fiber |-> Num(2)]}

\* calculatePerServing(totalNutrition, totalWeight, dishType)
CallCalculatePerServingOf ==
  /\ status = "idle"
  /\ \E totals \in NutritionArgs, totalWeight \in WeightArgs, type \in DishTypes :
       /\ totalNutrition' = totals
       /\ totalWeightInGrams' = totalWeight
       /\ dishType' = type
       /\ perServing' = <<calculatePerServing(totals, totalWeight, type)>>
  /\ status' = "served"
  /\ UNCHANGED <<tables, ingredients, pc, standardName, microQ, processedIngredients,
                 qtyVars, resolveVars, previous, estimateVars>>

NextServing == CallCalculatePerServingOf

SpecServing == Init /\ [][NextServing]_vars

\* the serving size of the call
ServingGrams ==
  IF dishType \in DOMAIN householdMeasurements.foodTypes
    THEN householdMeasurements.foodTypes[dishType].serving ELSE Num(150)

\* servingGrams / max(totalWeight, 1)
RatioOverAtLeastOne ==
  JsDiv(ServingGrams, IF JsLt(totalWeightInGrams, Num(1)) THEN Num(1) ELSE totalWeightInGrams)

\* C24: for every total weight of 0 or more, every nutrient is scaled by
\* the serving size over the larger of the total weight and 1
C24_DivisorAtLeastOne ==
  (status = "served" /\ ~JsLt(totalWeightInGrams, Zero)) =>
    /\ perServing[1].calories = OrZero(MathRound(JsMul(totalNutrition.calories, RatioOverAtLeastOne)))
    /\ \A key \in {"protein", "carbs", "fat", "fiber"} :
         perServing[1][key] = Tenths(JsMul(totalNutrition[key], RatioOverAtLeastOne))

\* a dish of half a gram with 90 kcal: a serving of 150 g has 27000 kcal,
\* the total divided by 0.5
C24_HalfAGram ==
  /\ status = "served"
  /\ totalWeightInGrams = Fin(1, 2)
  /\ totalNutrition.calories = Num(90)
  /\ ServingGrams = Num(150)
  /\ perServing[1].calories = Num(27000)

\* outside the weights strictly between 0 and 1 the scaling is the stated one
C24_FromOneGramOn ==
  (status = "served" /\ (totalWeightInGrams = Zero \/ ~JsLt(totalWeightInGrams, Num(1)))) =>
    /\ perServing[1].calories = OrZero(MathRound(JsMul(totalNutrition.calories, RatioOverAtLeastOne)))
    /\ \A key \in {"protein", "carbs", "fat", "fiber"} :
         perServing[1][key] = Tenths(JsMul(totalNutrition[key], RatioOverAtLeastOne))

(***************************************************************************)
(* The concurrent pipelines of calculateNutrition                          *)
(***************************************************************************)
\* a service with the prepared database and the full measurement table
InitPipelines == Init /\ nutritionDB = PreparedDB /\ householdMeasurements = fullMeasurements

\* entries that resolve at once, entries that wait for the matcher, an
\* entry without a name and a null entry
PipelineEntries ==
  { Entry(<<"onions">>, <<>>, <<"2 medium">>),
    Entry(<<"Ghee">>, <<"500 g">>, <<>>),
    Entry(<<"xyz">>, <<"1 cup">>, <<>>),
    Entry(<<"tomato">>, <<>>, <<"1/0 cup">>),
    Entry(<<>>, <<"1 cup">>, <<>>),
    <<>> }

CallCalculateNutritionPipelines ==
  \E list \in ListsUpTo(PipelineEntries, MaxIngredients) : calculateNutritionOf(list)

NextPipelines ==
  \/ CallCalculateNutritionPipelines
  \/ RunMicrotask
  \/ AiSettle
  \/ ReturnCalculateNutrition

SpecPipelines == InitPipelines /\ [][NextPipelines]_vars

\* what standardizeIngredientName can return for a name, by itself
OwnResolutions(name) ==
  IF ~standardizeSync(name).ai THEN {standardizeSync(name).name}
  ELSE IF aiSkipped(name) THEN {<<>>}
  ELSE {aiMatch(reply) : reply \in AiReplies}

\* the record of the i-th ingredient when it is processed alone, with the
\* name its resolution returned
SequentialRecord(i) ==
  IF ingredients[i][1].name = <<>> THEN failedRecord(i, ingredients[i][1])
  ELSE processedRecord(i, ingredients[i][1], standardName[i])

\* the records of all ingredients processed one after the other
SequentialRecords == [i \in 1..Len(ingredients) |-> SequentialRecord(i)]

C26_RecordsInInputOrder ==
  Returned =>
    /\ Len(processedIngredients) = Len(ingredients)
    /\ \A i \in 1..Len(ingredients) :
         /\ processedIngredients[i].idx = i
         /\ processedIngredients[i].ingredient = ingredients[i][1].name

\* the returned list has one record per ingredient, in some order
C26_OneRecordEach ==
  Returned =>
    /\ Len(processedIngredients) = Len(ingredients)
    /\ \A i \in 1..Len(ingredients) :
         \E k \in 1..Len(processedIngredients) : processedIngredients[k].idx = i

\* "onions" waits for the matcher and tomato does not: the first record
\* returned is the one of tomato, the second ingredient
C26_TomatoBeforeOnions ==
  /\ Returned
  /\ Len(ingredients) = 2
  /\ ingredients[1][1].name = <<"onions">> /\ ingredients[2][1].name = <<"tomato">>
  /\ Len(processedIngredients) = 2
  /\ processedIngredients[1].ingredient = <<"tomato">>
  /\ processedIngredients[2].ingredient = <<"onions">>

(***************************************************************************)
(* Termination of calculateNutrition                                       *)
(***************************************************************************)
\* the event loop runs every queued microtask, every generateText call
\* settles, and the continuation of the await of Promise.all runs
SpecPipelinesFair ==
  /\ SpecPipelines
  /\ WF_vars(RunMicrotask)
  /\ WF_vars(AiSettle)
  /\ WF_vars(ReturnCalculateNutrition)

\* C27: a call of calculateNutrition eventually returns, provided every
\* call of the external matcher settles
C27_EventuallyReturns == (status = "running") ~> Returned

\* a call of calculateNutrition eventually returns or rejects
C27_EventuallySettles == (status = "running") ~> (Returned \/ status = "rejected")

\* a call on a list without a null entry eventually returns
C27_ReturnsWithoutNullEntry ==
  (status = "running" /\ \A i \in 1..Len(ingredients) : ingredients[i] # <<>>) ~> Returned

\* the call does not return while a callback waits for the matcher
C27_NoReturnWhilePending ==
  Returned => \A i \in 1..Len(pc) : pc[i] # "ai"

\* the call on [onions, null] has rejected while the matcher call for
\* "onions" is still pending
C27_RejectedWhilePending ==
  /\ status = "rejected"
  /\ Len(ingredients) = 2
  /\ ingredients[1] # <<>> /\ ingredients[1][1].name = <<"onions">>
  /\ ingredients[2] = <<>>
  /\ pc[1] = "ai"

(***************************************************************************)
(* The outcomes of estimateNutrition                                       *)
(***************************************************************************)
\* estimateNutrition has resolved
Estimated == ePc = "done"

\* C28: estimateNutrition resolves to an object with a boolean error, and
\* when error is true the object has a message and nothing of the
\* nutrition calculation
C28_ErrorOutcome ==
  Estimated =>
    /\ eResult # <<>>
    /\ eResult[1].error \in BOOLEAN
    /\ eResult[1].error =>
         /\ eResult[1].message # <<>>
         /\ DOMAIN eResult[1] = {"error", "message"}

\* estimateNutrition resolves to an object with a boolean error, also when
\* calculateNutrition rejected, and an error object has nothing of the
\* nutrition calculation
C28_ResolvesWithBooleanError ==
  /\ ePc \in {"idle", "validating", "fetching", "calculating", "done"}
  /\ Estimated =>
       /\ eResult # <<>>
       /\ eResult[1].error \in BOOLEAN
       /\ eResult[1].error => DOMAIN eResult[1] = {"error", "message"}
  /\ (ePc = "calculating" /\ status = "rejected") => ENABLED NutritionRejects

\* the validation answered isValid false without a message: error is
\* true and message is undefined
C28_ErrorWithoutMessage ==
  /\ Estimated
  /\ eDish = <<"dal tadka">>
  /\ eRecipe = <<>>
  /\ eResult # <<>>
  /\ eResult[1].error
  /\ eResult[1].message = <<>>

(***************************************************************************)
(* The grams rule                                                          *)
(***************************************************************************)
\* the g that the grams rule matched in s is a unit of its own: no letter
\* follows it
GramIsUnit(s) ==
  With(MatchNumber(s, ContGram), LAMBDA match :
    ~IsAlpha(CharAt(s, SpacesEnd(s, match[2] + 1) + 2)))

\* the phrase of the call, when it is a string
QuantityCalledWith(s) == qPhrase = <<<<s>>>>

\* C29: parseQuantity returns through the grams rule only when the number
\* is followed by the unit g itself, not by a word that begins with g
C29_GramsOnlyForUnitG ==
  \A quantity \in QuantityArgs :
    (quantity # <<>> /\ QuantityCalledWith(quantity[1])
       /\ qParsed # <<>> /\ qParsed = GramsRule(quantity[1]))
      => GramIsUnit(quantity[1])

\* "2 garlic cloves" is parsed as 2 g, and standardized to 2 grams
C29_GarlicClovesAsGrams ==
  /\ QuantityCalledWith("2 garlic cloves")
  /\ ~GramIsUnit("2 garlic cloves")
  /\ qParsed = <<[value |-> Num(2), unit |-> <<"g">>]>>
  /\ qGrams = <<Num(2)>>

\* "2 - 3 green chilies" is parsed as 3 g
C29_GreenChiliesAsGrams ==
  /\ QuantityCalledWith("2 - 3 green chilies")
  /\ qParsed = <<[value |-> Num(3), unit |-> <<"g">>]>>

\* "125 g" is parsed as 125 g
C29_LiteralGrams ==
  /\ QuantityCalledWith("125 g")
  /\ GramIsUnit("125 g")
  /\ qParsed = <<[value |-> Num(125), unit |-> <<"g">>]>>

(***************************************************************************)
(* standardizeIngredientName on the keys of the synonym table              *)
(***************************************************************************)
\* a prepared table with the targets of the default synonyms
StapleDB ==
  << Row("onion", "40", "1.1", "9.3", "0.1", "1.7"),
     Row("tomato", "18", "0.9", "3.9", "0.2", "1.2"),
     Row("ginger", "80", "1.8", "17.8", "0.8", "2"),
     Row("garlic", "149", "6.4", "33.1", "0.5", "2.1"),
     Row("potato", "77", "2", "17.5", "0.1", "2.2"),
     Row("wheat_flour", "340", "13.2", "72", "2.5", "10.7"),
     Row("red_chili_powder", "282", "13.5", "49.7", "14.3", "34.8"),
     Row("coriander_powder", "298", "12.4", "55", "17.8", "41.9"),
     Row("coriander_leaves", "23", "2.1", "3.7", "0.5", "2.8"),
     Row("green_peas", "81", "5.4", "14.5", "0.4", "5.1") >>

InitSynonymKeys ==
  /\ nutritionDB = StapleDB
  /\ dbIngredientNames = [i \in 1..Len(nutritionDB) |-> nutritionDB[i].ingredient]
  /\ ingredientSynonyms \in SynonymTables
  /\ aiModel \in BOOLEAN
  /\ householdMeasurements = fullMeasurements
  /\ NoCall /\ NoQuantityCall /\ NoResolveCall /\ NoPreviousCall /\ NoEstimateCall

\* standardizeIngredientName(key) for a key of the synonym table, up to its
\* return or to the call of generateText
CallStandardizeSynonymKey ==
  /\ rPc = "idle"
  /\ \E ingredientName \in DOMAIN ingredientSynonyms :
       /\ rName' = ingredientName
       /\ rPc' = IF standardizeSync(ingredientName).ai /\ ~aiSkipped(ingredientName)
                   THEN "ai" ELSE "done"
       /\ rResult' = standardizeSync(ingredientName).name
  /\ rReply' = <<>>
  /\ UNCHANGED <<tables, callVars, qtyVars>>

NextSynonymKeys == CallStandardizeSynonymKey \/ AiReply

SpecSynonymKeys == InitSynonymKeys /\ [][NextSynonymKeys]_vars

\* the raw name of the call is a key of the synonym table, its target is
\* in the table and its own spaced and underscored forms are not
KeyWithTargetInTable ==
  /\ rPc = "done"
  /\ rName \in DOMAIN ingredientSynonyms
  /\ InTable(ingredientSynonyms[rName])
  /\ ~InTable(rName) /\ ~InTable(ReplaceSpaces(rName, "_"))

\* C30: a raw name that is a key of the synonym table, with its target in
\* the table and its own forms not in it, resolves to the target of the key
C30_KeyResolvesToTarget ==
  KeyWithTargetInTable => rResult = <<ingredientSynonyms[rName]>>

\* a key that the normalization leaves as it is resolves to its target
C30_UntouchedKeyResolvesToTarget ==
  (KeyWithTargetInTable /\ rNormalized = rName) => rResult = <<ingredientSynonyms[rName]>>

\* "dhania powder" has the target "coriander_powder", is normalized to
\* "dhania" and resolves to "coriander_leaves"
C30_DhaniaPowderAsLeaves ==
  /\ KeyWithTargetInTable
  /\ ingredientSynonyms = defaultSynonyms
  /\ rName = "dhania powder"
  /\ ingredientSynonyms[rName] = "coriander_powder"
  /\ rNormalized = "dhania"
  /\ rResult = <<"coriander_leaves">>

\* "ginger garlic paste" has the target "garlic", is normalized to
\* "ginger garlic" and is left to the matcher, which finds nothing
C30_GingerGarlicPasteUnresolved ==
  /\ KeyWithTargetInTable
  /\ rName = "ginger garlic paste"
  /\ rNormalized = "ginger garlic"
  /\ rReply = <<"None">>
  /\ rResult = <<>>

\* "chopped tomato" is normalized to "tomato", a row of the table
C30_ChoppedTomatoDirect ==
  /\ KeyWithTargetInTable
  /\ rName = "chopped tomato"
  /\ rNormalized = "tomato"
  /\ rResult = <<"tomato">>

====
